---- MODULE Spec2Model ----
(***************************************************************************)
(* Kanban MCP server: the ticket service (TicketManager) behind the tool   *)
(* handlers of KanbanServer, over one persisted JSON document.             *)
(*                                                                         *)
(* A ticket id "TICKET-0007" is written as its digit string <<0,0,0,7>>    *)
(* (the constant prefix "TICKET-" is left out).  The ordered JavaScript    *)
(* object storage.tickets is a sequence of tickets in insertion order, so  *)
(* Object.values(storage.tickets) is that sequence.                        *)
(***************************************************************************)
EXTENDS Integers, Sequences, FiniteSets, TLC

\* ------------------------------------------------------------------ bounds
MaxTickets == 3      \* ids are minted while nextId <= MaxTickets
MaxTime == 4         \* number of persisted writes in a run
MaxLen == 2          \* longest blockedBy list a request carries
MaxBatch == 2        \* longest batch a request carries

\* ----------------------------------------------------------- program data
IdWidth == 4
CurrentVersion == "0.2.0"
Statuses == {"open", "in-progress", "closed"}

None == <<>>
Some(v) == <<v>>
IsSome(o) == Len(o) = 1
Get(o) == o[1]

NoId == <<>>

RECURSIVE Digits(_)
\* Number.prototype.toString(): the decimal digits of n
Digits(n) == IF n < 10 THEN <<n>> ELSE Append(Digits(n \div 10), n % 10)

RECURSIVE PadStart(_, _, _)
\* String.prototype.padStart(width, fill)
PadStart(s, width, fill) ==
    IF Len(s) >= width THEN s ELSE PadStart(<<fill>> \o s, width, fill)

TicketId(n) == PadStart(Digits(n), IdWidth, 0)

Range(s) == {s[i] : i \in 1..Len(s)}
Includes(s, x) == \E i \in 1..Len(s) : s[i] = x

\* ------------------------------------------------------------- the storage
InitialData == [version |-> CurrentVersion, tickets |-> <<>>, nextId |-> 1]

Keys(storage) == {storage.tickets[i].id : i \in 1..Len(storage.tickets)}
HasTicket(storage, id) == \E i \in 1..Len(storage.tickets) : storage.tickets[i].id = id
IndexOf(storage, id) == CHOOSE i \in 1..Len(storage.tickets) : storage.tickets[i].id = id
TicketOf(storage, id) == storage.tickets[IndexOf(storage, id)]

NoError == [kind |-> "none", id |-> NoId]
Err(kind, id) == [kind |-> kind, id |-> id]

\* generateId, were the next number the number of stored tickets plus one
GenerateIdFromCount(storage) ==
    [id |-> TicketId(Len(storage.tickets) + 1),
     storage |-> [storage EXCEPT !.nextId = Len(storage.tickets) + 2]]

\* generateId: formats the counter, then increments it
GenerateId(storage) ==
    [id |-> TicketId(storage.nextId),
     storage |-> [storage EXCEPT !.nextId = @ + 1]]

RECURSIVE ValidateDependencies(_, _, _)
\* validateDependencies: the first failure in list order, or NoError
ValidateDependencies(dependencies, storage, excludeId) ==
    IF dependencies = <<>> THEN NoError
    ELSE LET depId == Head(dependencies) IN
         IF depId = excludeId THEN Err("self-dependency", NoId)
         ELSE IF ~HasTicket(storage, depId) THEN Err("missing-dependency", depId)
         ELSE ValidateDependencies(Tail(dependencies), storage, excludeId)

\* the edges out of id, were the candidate's new list forgotten
DepsOfStored(id, ticketId, blockedBy, storage) ==
    IF HasTicket(storage, id) THEN TicketOf(storage, id).blockedBy ELSE <<>>

\* the edges hasCycle follows out of id
DepsOf(id, ticketId, blockedBy, storage) ==
    IF id = ticketId THEN blockedBy
    ELSE IF HasTicket(storage, id) THEN TicketOf(storage, id).blockedBy
    ELSE <<>>

RECURSIVE HasCycle(_, _, _, _, _)
RECURSIVE HasCycleLoop(_, _, _, _, _)
\* hasCycle, were a ticket that has been fully processed taken for one that
\* is on the current path
HasCycleTwoColours(id, ticketId, blockedBy, storage, m) ==
    IF id \in m.visiting \cup m.visited THEN [m EXCEPT !.cycle = TRUE]
    ELSE LET m1 == [m EXCEPT !.visiting = @ \cup {id}]
             r == HasCycleLoop(DepsOf(id, ticketId, blockedBy, storage),
                               ticketId, blockedBy, storage, m1)
         IN  IF r.cycle THEN r
             ELSE [cycle |-> FALSE,
                   visited |-> r.visited \cup {id},
                   visiting |-> r.visiting \ {id}]

\* hasCycle(id) with its two sets: m = [cycle, visited, visiting]
HasCycle(id, ticketId, blockedBy, storage, m) ==
    IF id \in m.visiting THEN [m EXCEPT !.cycle = TRUE]
    ELSE IF id \in m.visited THEN [m EXCEPT !.cycle = FALSE]
    ELSE LET m1 == [m EXCEPT !.visiting = @ \cup {id}]
             r == HasCycleLoop(DepsOf(id, ticketId, blockedBy, storage),
                               ticketId, blockedBy, storage, m1)
         IN  IF r.cycle THEN r
             ELSE [cycle |-> FALSE,
                   visited |-> r.visited \cup {id},
                   visiting |-> r.visiting \ {id}]

\* the for loop over deps inside hasCycle
HasCycleLoop(deps, ticketId, blockedBy, storage, m) ==
    IF deps = <<>> THEN [m EXCEPT !.cycle = FALSE]
    ELSE LET r == HasCycle(Head(deps), ticketId, blockedBy, storage, m) IN
         IF r.cycle THEN r
         ELSE HasCycleLoop(Tail(deps), ticketId, blockedBy, storage, r)

\* checkCircularDependency: TRUE when it throws
CheckCircularDependency(ticketId, blockedBy, storage) ==
    HasCycle(ticketId, ticketId, blockedBy, storage,
             [cycle |-> FALSE, visited |-> {}, visiting |-> {}]).cycle

NewTicket(id, title, description, projects, blockedBy, time) ==
    [id |-> id, title |-> title, description |-> description,
     projects |-> projects, blockedBy |-> blockedBy,
     createdAt |-> time, updatedAt |-> time, status |-> "open"]

\* Every service operation yields [error, file, result]: the error thrown (or
\* NoError), the content of the data file when the call ends, and the value
\* returned.
Outcome(error, file, result) == [error |-> error, file |-> file, result |-> result]

\* createTicket, were the incremented counter saved when validation fails
CreateTicketBurnsId(file, time, title, description, projects, blockedBy) ==
    LET g == GenerateId(file)
        e == ValidateDependencies(blockedBy, file, NoId)
        ticket == NewTicket(g.id, title, description, projects, blockedBy, time)
    IN  IF e # NoError THEN Outcome(e, g.storage, <<>>)
        ELSE Outcome(NoError,
                     [g.storage EXCEPT !.tickets = Append(@, ticket)],
                     <<ticket>>)

\* createTicket
CreateTicket(file, time, title, description, projects, blockedBy) ==
    LET storage == file
        e == ValidateDependencies(blockedBy, storage, NoId)
        g == GenerateId(storage)
        ticket == NewTicket(g.id, title, description, projects, blockedBy, time)
    IN  IF e # NoError THEN Outcome(e, file, <<>>)
        ELSE IF CheckCircularDependency(g.id, blockedBy, g.storage)
             THEN Outcome(Err("circular", NoId), file, <<>>)
        ELSE Outcome(NoError,
                     [g.storage EXCEPT !.tickets = Append(@, ticket)],
                     <<ticket>>)

RECURSIVE ValidateAllGrowing(_, _)
\* createTickets' first pass, were every item checked against the document
\* with the items before it already in
ValidateAllGrowing(items, storage) ==
    IF items = <<>> THEN NoError
    ELSE LET d == Head(items)
             e == ValidateDependencies(d.blockedBy, storage, NoId)
             g == GenerateId(storage)
             ticket == NewTicket(g.id, d.title, d.description, d.projects, d.blockedBy, 0)
         IN  IF e # NoError THEN e
             ELSE ValidateAllGrowing(Tail(items),
                                     [g.storage EXCEPT !.tickets = Append(@, ticket)])

RECURSIVE ValidateAll(_, _)
\* createTickets, first pass
ValidateAll(items, storage) ==
    IF items = <<>> THEN NoError
    ELSE LET e == ValidateDependencies(Head(items).blockedBy, storage, NoId) IN
         IF e # NoError THEN e ELSE ValidateAll(Tail(items), storage)

RECURSIVE CreateLoop(_, _, _, _)
\* createTickets' second pass, were each new ticket put in front of the
\* tickets created before it
CreateLoopNewestFirst(items, storage, created, time) ==
    IF items = <<>> THEN [error |-> NoError, storage |-> storage, created |-> created]
    ELSE LET d == Head(items)
             g == GenerateId(storage)
             ticket == NewTicket(g.id, d.title, d.description, d.projects, d.blockedBy, time)
         IN  IF CheckCircularDependency(g.id, d.blockedBy, g.storage)
             THEN [error |-> Err("circular", NoId), storage |-> g.storage, created |-> created]
             ELSE CreateLoop(Tail(items),
                             [g.storage EXCEPT !.tickets = Append(@, ticket)],
                             <<ticket>> \o created, time)

\* createTickets, second pass: [error, storage, created]
CreateLoop(items, storage, created, time) ==
    IF items = <<>> THEN [error |-> NoError, storage |-> storage, created |-> created]
    ELSE LET d == Head(items)
             g == GenerateId(storage)
             ticket == NewTicket(g.id, d.title, d.description, d.projects, d.blockedBy, time)
         IN  IF CheckCircularDependency(g.id, d.blockedBy, g.storage)
             THEN [error |-> Err("circular", NoId), storage |-> g.storage, created |-> created]
             ELSE CreateLoop(Tail(items),
                             [g.storage EXCEPT !.tickets = Append(@, ticket)],
                             Append(created, ticket), time)

RECURSIVE CreateOneByOne(_, _, _, _)
\* createTickets, were it to validate, create and save item after item
CreateOneByOne(items, file, created, time) ==
    IF items = <<>> THEN Outcome(NoError, file, created)
    ELSE LET d == Head(items)
             o == CreateTicket(file, time, d.title, d.description, d.projects, d.blockedBy)
         IN  IF o.error # NoError THEN Outcome(o.error, file, <<>>)
             ELSE CreateOneByOne(Tail(items), o.file, created \o o.result, time)

CreateTicketsOneByOne(file, time, items) == CreateOneByOne(items, file, <<>>, time)

\* createTickets
CreateTickets(file, time, items) ==
    LET storage == file
        e == ValidateAll(items, storage)
        r == CreateLoop(items, storage, <<>>, time)
    IN  IF e # NoError THEN Outcome(e, file, <<>>)
        ELSE IF r.error # NoError THEN Outcome(r.error, file, <<>>)
        ELSE Outcome(NoError, r.storage, r.created)

\* readTicket
ReadTicket(file, ticketId) ==
    IF ~HasTicket(file, ticketId) THEN Outcome(Err("not-found", ticketId), file, <<>>)
    ELSE Outcome(NoError, file, <<TicketOf(file, ticketId)>>)

RECURSIVE AllExist(_, _)
\* updateTickets, first loop
AllExist(updates, storage) ==
    IF updates = <<>> THEN NoError
    ELSE IF ~HasTicket(storage, Head(updates).ticketId)
         THEN Err("not-found", Head(updates).ticketId)
         ELSE AllExist(Tail(updates), storage)

\* updateTickets' second loop, were it to stop after the first update
ValidateUpdatesFirstOnly(updates, storage) ==
    IF updates = <<>> THEN NoError
    ELSE LET u == Head(updates)
             e == ValidateDependencies(Get(u.blockedBy), storage, u.ticketId)
         IN  IF ~IsSome(u.blockedBy) THEN NoError
             ELSE IF e # NoError THEN e
             ELSE IF CheckCircularDependency(u.ticketId, Get(u.blockedBy), storage)
                  THEN Err("circular", NoId)
             ELSE NoError

RECURSIVE ValidateUpdates(_, _)
\* updateTickets, second loop
ValidateUpdates(updates, storage) ==
    IF updates = <<>> THEN NoError
    ELSE LET u == Head(updates)
             e == ValidateDependencies(Get(u.blockedBy), storage, u.ticketId)
         IN  IF ~IsSome(u.blockedBy) THEN ValidateUpdates(Tail(updates), storage)
             ELSE IF e # NoError THEN e
             ELSE IF CheckCircularDependency(u.ticketId, Get(u.blockedBy), storage)
                  THEN Err("circular", NoId)
             ELSE ValidateUpdates(Tail(updates), storage)

\* the updated ticket, were a supplied blockedBy added to the stored list
ApplyUpdateMerging(ticket, u, time) ==
    [id |-> ticket.id,
     title |-> IF IsSome(u.title) THEN Get(u.title) ELSE ticket.title,
     description |-> IF IsSome(u.description) THEN Get(u.description) ELSE ticket.description,
     projects |-> ticket.projects,
     blockedBy |-> IF IsSome(u.blockedBy)
                   THEN ticket.blockedBy \o Get(u.blockedBy) ELSE ticket.blockedBy,
     createdAt |-> ticket.createdAt,
     updatedAt |-> time,
     status |-> IF IsSome(u.status) THEN Get(u.status) ELSE ticket.status]

\* { ...ticket, ...updateFields, updatedAt: now }
ApplyUpdate(ticket, u, time) ==
    [id |-> ticket.id,
     title |-> IF IsSome(u.title) THEN Get(u.title) ELSE ticket.title,
     description |-> IF IsSome(u.description) THEN Get(u.description) ELSE ticket.description,
     projects |-> ticket.projects,
     blockedBy |-> IF IsSome(u.blockedBy) THEN Get(u.blockedBy) ELSE ticket.blockedBy,
     createdAt |-> ticket.createdAt,
     updatedAt |-> time,
     status |-> IF IsSome(u.status) THEN Get(u.status) ELSE ticket.status]

RECURSIVE ApplyLoop(_, _, _, _)
\* updateTickets, third loop: [storage, updated]
ApplyLoop(updates, storage, updated, time) ==
    IF updates = <<>> THEN [storage |-> storage, updated |-> updated]
    ELSE LET u == Head(updates)
             i == IndexOf(storage, u.ticketId)
             t == ApplyUpdate(storage.tickets[i], u, time)
         IN  ApplyLoop(Tail(updates),
                       [storage EXCEPT !.tickets[i] = t],
                       Append(updated, t), time)

RECURSIVE CheckEach(_, _)
\* one loop that checks existence and dependencies update after update
CheckEach(updates, storage) ==
    IF updates = <<>> THEN NoError
    ELSE LET u == Head(updates)
             e == ValidateUpdates(<<u>>, storage)
         IN  IF ~HasTicket(storage, u.ticketId) THEN Err("not-found", u.ticketId)
             ELSE IF e # NoError THEN e
             ELSE CheckEach(Tail(updates), storage)

\* updateTickets, were its two validation loops merged into one
UpdateTicketsOneLoop(file, time, updates) ==
    LET e == CheckEach(updates, file)
        r == ApplyLoop(updates, file, <<>>, time)
    IN  IF e # NoError THEN Outcome(e, file, <<>>)
        ELSE Outcome(NoError, r.storage, r.updated)

\* updateTickets
UpdateTickets(file, time, updates) ==
    LET storage == file
        e1 == AllExist(updates, storage)
        e2 == ValidateUpdates(updates, storage)
        r == ApplyLoop(updates, storage, <<>>, time)
    IN  IF e1 # NoError THEN Outcome(e1, file, <<>>)
        ELSE IF e2 # NoError THEN Outcome(e2, file, <<>>)
        ELSE Outcome(NoError, r.storage, r.updated)

Without(s, x) == SelectSeq(s, LAMBDA d : d # x)

\* deleteTicket, were it to leave the other tickets alone
DeleteTicketNoStrip(file, ticketId) ==
    IF ~HasTicket(file, ticketId)
    THEN Outcome(Err("not-found", ticketId), file, <<>>)
    ELSE Outcome(NoError,
                 [file EXCEPT !.tickets = SelectSeq(@, LAMBDA t : t.id # ticketId)],
                 <<TRUE>>)

\* deleteTicket, were it to empty every list that names the deleted ticket
DeleteTicketClear(file, ticketId) ==
    LET cleared == [i \in 1..Len(file.tickets) |->
                       IF Includes(file.tickets[i].blockedBy, ticketId)
                       THEN [file.tickets[i] EXCEPT !.blockedBy = <<>>]
                       ELSE file.tickets[i]]
    IN  IF ~HasTicket(file, ticketId)
        THEN Outcome(Err("not-found", ticketId), file, <<>>)
        ELSE Outcome(NoError,
                     [file EXCEPT !.tickets = SelectSeq(cleared, LAMBDA t : t.id # ticketId)],
                     <<TRUE>>)

\* deleteTicket, were deleting an unknown id a silent success
DeleteTicketQuiet(file, ticketId) ==
    LET stripped == [i \in 1..Len(file.tickets) |->
                        [file.tickets[i] EXCEPT !.blockedBy = Without(@, ticketId)]]
    IN  Outcome(NoError,
                [file EXCEPT !.tickets = SelectSeq(stripped, LAMBDA t : t.id # ticketId)],
                <<TRUE>>)

\* deleteTicket
DeleteTicket(file, ticketId) ==
    LET storage == file
        stripped == [i \in 1..Len(storage.tickets) |->
                        [storage.tickets[i] EXCEPT !.blockedBy = Without(@, ticketId)]]
        kept == SelectSeq(stripped, LAMBDA t : t.id # ticketId)
    IN  IF ~HasTicket(storage, ticketId)
        THEN Outcome(Err("not-found", ticketId), file, <<>>)
        ELSE Outcome(NoError, [storage EXCEPT !.tickets = kept], <<TRUE>>)


\* toLowerCase, were it left out of the project filter
ToLowerCaseNot(p) == p

\* String.prototype.toLowerCase() on the project names requests and tickets use
ToLowerCase(p) == IF p = "Web" THEN "web" ELSE p

\* the project filter of listTickets and nextTickets; a ticket's projects is
\* None when the stored ticket has no such field, and then its projectId, the
\* field of the oldest format, is compared when it has one
MatchesProject(ticket, project) ==
    IF IsSome(ticket.projects)
    THEN \E i \in 1..Len(Get(ticket.projects)) :
             ToLowerCase(Get(ticket.projects)[i]) = ToLowerCase(project)
    ELSE /\ "projectId" \in DOMAIN ticket
         /\ ToLowerCase(ticket.projectId) = ToLowerCase(project)

RECURSIVE InsertNewestFirst(_, _)
\* t goes behind every ticket that is not older than it
InsertNewestFirst(sorted, t) ==
    IF sorted = <<>> THEN <<t>>
    ELSE IF Head(sorted).createdAt >= t.createdAt
         THEN <<Head(sorted)>> \o InsertNewestFirst(Tail(sorted), t)
         ELSE <<t>> \o sorted

RECURSIVE SortNewestFirst(_)
\* tickets.sort(by createdAt, descending); Array.prototype.sort is stable
SortNewestFirst(ts) ==
    IF ts = <<>> THEN <<>>
    ELSE InsertNewestFirst(SortNewestFirst(SubSeq(ts, 1, Len(ts) - 1)), ts[Len(ts)])

\* listTickets, were the stored tickets sorted in place and the storage saved
ListTicketsSaving(file, project, status, dependsOn) ==
    LET sorted == [file EXCEPT !.tickets = SortNewestFirst(file.tickets)]
        f1 == IF IsSome(project)
              THEN SelectSeq(sorted.tickets, LAMBDA t : MatchesProject(t, Get(project)))
              ELSE sorted.tickets
        f2 == IF IsSome(status)
              THEN SelectSeq(f1, LAMBDA t : t.status = Get(status))
              ELSE f1
        f3 == IF IsSome(dependsOn)
              THEN SelectSeq(f2, LAMBDA t : Includes(t.blockedBy, Get(dependsOn)))
              ELSE f2
    IN  Outcome(NoError, sorted, f3)

\* listTickets
ListTickets(file, project, status, dependsOn) ==
    LET storage == file
        f1 == IF IsSome(project)
              THEN SelectSeq(storage.tickets, LAMBDA t : MatchesProject(t, Get(project)))
              ELSE storage.tickets
        f2 == IF IsSome(status)
              THEN SelectSeq(f1, LAMBDA t : t.status = Get(status))
              ELSE f1
        f3 == IF IsSome(dependsOn)
              THEN SelectSeq(f2, LAMBDA t : Includes(t.blockedBy, Get(dependsOn)))
              ELSE f2
    IN  Outcome(NoError, file, SortNewestFirst(f3))

\* the filter of buildResearchTree, were closed tickets let through
DependentsAll(ticketId, storage) ==
    SelectSeq(storage.tickets, LAMBDA t : Includes(t.blockedBy, ticketId))

\* the filter of buildResearchTree: direct dependents that are not closed
Dependents(ticketId, storage) ==
    SelectSeq(storage.tickets,
              LAMBDA t : Includes(t.blockedBy, ticketId) /\ t.status # "closed")

RECURSIVE BuildResearchTree(_, _, _)
RECURSIVE BuildNodes(_, _, _)
\* buildResearchTree, were a ticket stopped only when it is met on its own
\* path for the second time (<<id>> marks the first repeat of id)
BuildResearchTreeSecondRepeat(ticketId, storage, visitedIds) ==
    IF <<ticketId>> \in visitedIds THEN <<>>
    ELSE BuildNodes(Dependents(ticketId, storage), storage,
                    visitedIds \cup {IF ticketId \in visitedIds
                                     THEN <<ticketId>> ELSE ticketId})

\* buildResearchTree
BuildResearchTree(ticketId, storage, visitedIds) ==
    IF ticketId \in visitedIds THEN <<>>
    ELSE BuildNodes(Dependents(ticketId, storage), storage, visitedIds \cup {ticketId})

\* dependents.map(...), were one visited set handed from child to child and
\* nothing taken out of it on the way back
BuildNodesSharing(dependents, storage, visitedIds) ==
    IF dependents = <<>> THEN <<>>
    ELSE LET RECURSIVE Ids(_)
             Ids(nodes) ==
                 IF nodes = <<>> THEN {}
                 ELSE {Head(nodes).id} \cup Ids(Head(nodes).unblocks) \cup Ids(Tail(nodes))
             first == BuildResearchTree(Head(dependents).id, storage, visitedIds)
         IN  <<[id |-> Head(dependents).id,
                title |-> Head(dependents).title,
                unblocks |-> first]>>
             \o BuildNodes(Tail(dependents), storage,
                           visitedIds \cup {Head(dependents).id} \cup Ids(first))

\* dependents.map(...): every child gets its own copy of the visited set
BuildNodes(dependents, storage, visitedIds) ==
    IF dependents = <<>> THEN <<>>
    ELSE <<[id |-> Head(dependents).id,
            title |-> Head(dependents).title,
            unblocks |-> BuildResearchTree(Head(dependents).id, storage, visitedIds)]>>
         \o BuildNodes(Tail(dependents), storage, visitedIds)

\* the first filter of nextTickets, were a missing blocker taken as done
IsUnblockedMissingOk(ticket, storage) ==
    /\ ticket.status # "closed"
    /\ \A i \in 1..Len(ticket.blockedBy) :
          HasTicket(storage, ticket.blockedBy[i])
              => TicketOf(storage, ticket.blockedBy[i]).status = "closed"

\* the first filter of nextTickets, were closed tickets let through
IsUnblockedKeepsClosed(ticket, storage) ==
    \A i \in 1..Len(ticket.blockedBy) :
        /\ HasTicket(storage, ticket.blockedBy[i])
        /\ TicketOf(storage, ticket.blockedBy[i]).status = "closed"

\* the first filter of nextTickets
IsUnblocked(ticket, storage) ==
    /\ ticket.status # "closed"
    /\ \/ Len(ticket.blockedBy) = 0
       \/ \A i \in 1..Len(ticket.blockedBy) :
             /\ HasTicket(storage, ticket.blockedBy[i])
             /\ TicketOf(storage, ticket.blockedBy[i]).status = "closed"

\* { ...ticketWithoutDeps, researchTree }
ToNextTicket(ticket, storage) ==
    [id |-> ticket.id, title |-> ticket.title, description |-> ticket.description,
     projects |-> ticket.projects, createdAt |-> ticket.createdAt,
     updatedAt |-> ticket.updatedAt, status |-> ticket.status,
     researchTree |-> BuildResearchTree(ticket.id, storage, {})]

\* nextTickets
NextTickets(file, project) ==
    LET storage == file
        f1 == SelectSeq(storage.tickets, LAMBDA t : IsUnblocked(t, storage))
        f2 == IF IsSome(project)
              THEN SelectSeq(f1, LAMBDA t : MatchesProject(t, Get(project)))
              ELSE f1
        sorted == SortNewestFirst(f2)
    IN  Outcome(NoError, file,
                [i \in 1..Len(sorted) |-> ToNextTicket(sorted[i], storage)])


\* ----------------------------------------------------------------- requests
\* What the client may send.  An absent optional argument is None.
IdInputs == {TicketId(n) : n \in 1..MaxTickets}
ListsUpTo(k) == UNION {[1..n -> IdInputs] : n \in 0..k}
BlockedByInputs == ListsUpTo(MaxLen)
ShortLists == ListsUpTo(MaxLen - 1)
SeqsUpTo(S, k) == UNION {[1..n -> S] : n \in 0..k}

\* a title or description that is left out reads as "" (both are falsy)
Incomplete(projects) ==
    {[title |-> "", description |-> "d1", projects |-> projects, blockedBy |-> <<>>],
     [title |-> "t1", description |-> "", projects |-> projects, blockedBy |-> <<>>]}
CreateInputs ==
    [title : {"t1"}, description : {"d1"}, projects : {<<>>}, blockedBy : BlockedByInputs]
    \cup Incomplete(<<>>)
CreateItems ==
    [title : {"t1"}, description : {"d1"}, projects : {Some(<<>>)}, blockedBy : ShortLists]
CreateBatchInputs ==
    SeqsUpTo(CreateItems, MaxBatch)
    \cup {<<x>> : x \in Incomplete(Some(<<>>))}
    \cup {<<d, x>> : d \in CreateItems, x \in Incomplete(Some(<<>>))}
    \cup {<<x, d>> : d \in CreateItems, x \in Incomplete(Some(<<>>))}

Update(ticketId, title, description, blockedBy, status) ==
    [ticketId |-> ticketId, title |-> title, description |-> description,
     blockedBy |-> blockedBy, status |-> status]
UpdateItems ==
    {Update(id, None, None, Some(l), None) : id \in IdInputs, l \in BlockedByInputs}
    \cup {Update(id, None, None, None, Some(st)) : id \in IdInputs, st \in Statuses}
    \cup {Update(id, Some("t2"), None, None, None) : id \in IdInputs}
ShortUpdateItems ==
    {Update(id, None, None, Some(l), None) : id \in IdInputs, l \in ShortLists}
    \cup {Update(id, None, None, None, Some("closed")) : id \in IdInputs}
UpdateBatchInputs ==
    {<<>>} \cup {<<u>> : u \in UpdateItems}
    \cup UNION {[1..n -> ShortUpdateItems] : n \in 2..MaxBatch}

ProjectInputs == {None}
ListInputs ==
    [project : ProjectInputs,
     status : {None, Some("closed")},
     dependsOn : {None, Some(TicketId(1))}]

\* -------------------------------------------------------------------- state
VARIABLES
    dataFile,    \* the parsed content of the data file
    now,         \* what new Date() returns to the next call
    response,    \* the answer the client is reading, or Idle
    before,      \* the data file as the request being answered found it
    minted,      \* every id given to a persisted ticket so far, in order
    backups,     \* the backup files next to the data file: suffix and content
    migration,   \* where the start of the process stands
    calls        \* the service calls between their readData and their writeData
vars == <<dataFile, now, response, before, minted, backups, migration, calls>>

\* initialize() has returned: the server takes requests
Serving == [phase |-> "serving"]

Idle == [op |-> "idle", args |-> <<>>, error |-> NoError, result |-> <<>>]
Answer(op, args, out) ==
    [op |-> op, args |-> args, error |-> out.error, result |-> out.result]

InvalidParams == Err("invalid-params", NoId)

\* the ids of the tickets a successful create or createBatch returns
MintedBy(op, out) ==
    IF op \in {"create", "createBatch"} /\ out.error = NoError
    THEN [i \in 1..Len(out.result) |-> out.result[i].id]
    ELSE <<>>

\* A handler that may write: the clock moves on with every call that succeeds.
Mutate(op, args, out) ==
    /\ now < MaxTime
    /\ dataFile' = out.file
    /\ now' = IF out.error = NoError THEN now + 1 ELSE now
    /\ response' = Answer(op, args, out)
    /\ before' = dataFile
    /\ minted' = minted \o MintedBy(op, out)
    /\ UNCHANGED <<backups, migration, calls>>

\* A handler that only reads.
Query(op, args, out) ==
    /\ dataFile' = out.file
    /\ now' = now
    /\ response' = Answer(op, args, out)
    /\ before' = dataFile
    /\ minted' = minted
    /\ UNCHANGED <<backups, migration, calls>>

\* case 'create_ticket', single ticket format
CreateTicketHandler(a) ==
    /\ response = Idle
    /\ dataFile.nextId <= MaxTickets
    /\ Mutate("create", a,
              IF a.title = "" \/ a.description = ""
              THEN Outcome(InvalidParams, dataFile, <<>>)
              ELSE CreateTicket(dataFile, now, a.title, a.description,
                                Some(a.projects), a.blockedBy))

\* case 'create_ticket', array format, were the items that lack a title or a
\* description left out and the others created
CreateTicketsHandlerSkipping(items) ==
    /\ response = Idle
    /\ dataFile.nextId + Len(items) - 1 <= MaxTickets
    /\ Mutate("createBatch", items,
              CreateTickets(dataFile, now,
                            SelectSeq(items, LAMBDA d : d.title # "" /\ d.description # "")))

\* case 'create_ticket', array format
CreateTicketsHandler(items) ==
    /\ response = Idle
    /\ dataFile.nextId + Len(items) - 1 <= MaxTickets
    /\ Mutate("createBatch", items,
              IF \E i \in 1..Len(items) : items[i].title = "" \/ items[i].description = ""
              THEN Outcome(InvalidParams, dataFile, <<>>)
              ELSE CreateTickets(dataFile, now, items))

\* case 'read_ticket'
ReadTicketHandler(ticketId) ==
    /\ response = Idle
    /\ Query("read", ticketId,
             IF ticketId = NoId THEN Outcome(InvalidParams, dataFile, <<>>)
             ELSE ReadTicket(dataFile, ticketId))

\* case 'update_ticket'
UpdateTicketHandler(updates) ==
    /\ response = Idle
    /\ Mutate("updateBatch", updates,
              IF updates = <<>> \/ \E i \in 1..Len(updates) : updates[i].ticketId = NoId
              THEN Outcome(InvalidParams, dataFile, <<>>)
              ELSE UpdateTickets(dataFile, now, updates))

\* case 'delete_ticket'
DeleteTicketHandler(ticketId) ==
    /\ response = Idle
    /\ Mutate("delete", ticketId,
              IF ticketId = NoId THEN Outcome(InvalidParams, dataFile, <<>>)
              ELSE DeleteTicket(dataFile, ticketId))

\* case 'list_tickets'
ListTicketsHandler(a) ==
    /\ response = Idle
    /\ Query("list", a, ListTickets(dataFile, a.project, a.status, a.dependsOn))

\* case 'next_tickets'
NextTicketsHandler(project) ==
    /\ response = Idle
    /\ Query("next", project, NextTickets(dataFile, project))

\* the exchange, were the server gone after an error answer
DeliverSuccessOnly ==
    /\ response # Idle
    /\ response.error = NoError
    /\ response' = Idle
    /\ before' = dataFile
    /\ UNCHANGED <<dataFile, now, minted, backups, migration, calls>>

\* the client takes the answer and may send its next request
Deliver ==
    /\ response # Idle
    /\ response' = Idle
    /\ before' = dataFile
    /\ UNCHANGED <<dataFile, now, minted, backups, migration, calls>>

Init ==
    /\ dataFile = InitialData
    /\ now = 0
    /\ response = Idle
    /\ before = InitialData
    /\ minted = <<>>
    /\ calls = {}
    /\ backups = {}
    /\ migration = Serving

Next ==
    \/ \E a \in CreateInputs : CreateTicketHandler(a)
    \/ \E items \in CreateBatchInputs : CreateTicketsHandler(items)
    \/ \E id \in IdInputs : ReadTicketHandler(id)
    \/ \E updates \in UpdateBatchInputs : UpdateTicketHandler(updates)
    \/ \E id \in IdInputs : DeleteTicketHandler(id)
    \/ \E a \in ListInputs : ListTicketsHandler(a)
    \/ \E project \in ProjectInputs : NextTicketsHandler(project)
    \/ Deliver

Spec == Init /\ [][Next]_vars

\* ------------------------------------------------ a data file found on disk
\* initializeDataFile leaves an existing file of the current version as it
\* is, whatever its tickets say: lists may name missing tickets, the ticket
\* itself, or close a cycle.
StoredTicket(n, blockedBy, status) ==
    [id |-> TicketId(n), title |-> "t1", description |-> "d1",
     projects |-> Some(<<>>), blockedBy |-> blockedBy,
     createdAt |-> 0, updatedAt |-> 0, status |-> status]
StoredDoc(n, lists, statuses) ==
    [version |-> CurrentVersion,
     tickets |-> [i \in 1..n |-> StoredTicket(i, lists[i], statuses[i])],
     nextId |-> n + 1]

InitStored ==
    /\ \E n \in 0..MaxTickets :
          \E lists \in [1..n -> BlockedByInputs], statuses \in [1..n -> Statuses] :
              dataFile = StoredDoc(n, lists, statuses)
    /\ now = 0
    /\ response = Idle
    /\ before = dataFile
    /\ minted = <<>>
    /\ calls = {}
    /\ backups = {}
    /\ migration = Serving

NextStored ==
    \/ \E project \in ProjectInputs : NextTicketsHandler(project)
    \/ Deliver

SpecStored == InitStored /\ [][NextStored]_vars

\* --------------------------------------------- create on a data file found
\* The same files, with room left for new tickets: the counter may be ahead
\* of the stored ids by more than one (tickets were deleted).
InitCreate ==
    /\ \E n \in 0..(MaxTickets - 1) :
          \E lists \in [1..n -> BlockedByInputs], nextId \in (n + 1)..MaxTickets :
              dataFile = [StoredDoc(n, lists, [i \in 1..n |-> "open"])
                             EXCEPT !.nextId = nextId]
    /\ now = 0
    /\ response = Idle
    /\ before = dataFile
    /\ minted = <<>>
    /\ calls = {}
    /\ backups = {}
    /\ migration = Serving

NextCreate ==
    \/ \E a \in CreateInputs : CreateTicketHandler(a)
    \/ \E items \in CreateBatchInputs : CreateTicketsHandler(items)
    \/ Deliver

SpecCreate == InitCreate /\ [][NextCreate]_vars

\* ------------------------------------------- research trees of longer chains
\* Documents as create leaves them (a new ticket can only be blocked by the
\* tickets that exist) with any statuses, one ticket more than the service
\* above mints, so that a ticket below a diamond has a dependent of its own.
MaxTree == 4
TreeIds == {TicketId(n) : n \in 1..MaxTree}
TreeLists == UNION {[1..n -> TreeIds] : n \in 0..MaxLen}

InitTree ==
    /\ \E n \in 0..MaxTree :
          \E lists \in {l \in [1..n -> TreeLists] :
                            \A i \in 1..n :
                                Range(l[i]) \subseteq {TicketId(k) : k \in 1..(i - 1)}} :
              \E statuses \in [1..n -> Statuses] :
                  dataFile = StoredDoc(n, lists, statuses)
    /\ now = 0
    /\ response = Idle
    /\ before = dataFile
    /\ minted = <<>>
    /\ calls = {}
    /\ backups = {}
    /\ migration = Serving

NextTree ==
    \/ \E project \in ProjectInputs : NextTicketsHandler(project)
    \/ Deliver

SpecTree == InitTree /\ [][NextTree]_vars

\* ------------------------------------------------- the start of the process
\* What MigrationManager reads is the raw JSON document: its version and its
\* tickets may be missing (None), and the dependencies and blockedBy of a
\* ticket are JSON values: missing, an array of ids, or something else.
MaxStored == 2       \* tickets in a data file found at the start
MaxSteps == 3        \* migrations in a catalog handed to the path search

CurrentAppVersion == "0.2.0"
OldestVersion == "0.1.0"

Absent == [kind |-> "absent"]
NotArray == [kind |-> "string"]
Array(l) == [kind |-> "array", items |-> l]
In(v) == v.kind # "absent"
IsArray(v) == v.kind = "array"

\* detectDataVersion, were the blockedBy array looked for before the
\* dependencies array
DetectDataVersionBlockedByFirst(rawData) ==
    IF IsSome(rawData.version) /\ Get(rawData.version) # ""
    THEN Get(rawData.version)
    ELSE IF IsSome(rawData.tickets) /\ Len(Get(rawData.tickets)) > 0
    THEN LET firstTicket == Get(rawData.tickets)[1] IN
         IF In(firstTicket.blockedBy) /\ IsArray(firstTicket.blockedBy)
         THEN "0.2.0"
         ELSE OldestVersion
    ELSE OldestVersion

\* detectDataVersion
DetectDataVersion(rawData) ==
    IF IsSome(rawData.version) /\ Get(rawData.version) # ""
    THEN Get(rawData.version)
    ELSE IF IsSome(rawData.tickets) /\ Len(Get(rawData.tickets)) > 0
    THEN LET firstTicket == Get(rawData.tickets)[1] IN
         IF In(firstTicket.dependencies) /\ IsArray(firstTicket.dependencies)
         THEN "0.1.0"
         ELSE IF In(firstTicket.blockedBy) /\ IsArray(firstTicket.blockedBy)
         THEN "0.2.0"
         ELSE OldestVersion
    ELSE OldestVersion

RECURSIVE Enqueue(_, _, _, _)
\* findMigrationPath, the for loop over possibleMigrations: [queue, visited]
Enqueue(possibleMigrations, queue, visited, path) ==
    IF possibleMigrations = <<>> THEN [queue |-> queue, visited |-> visited]
    ELSE LET m == Head(possibleMigrations) IN
         IF m.toVersion \notin visited
         THEN Enqueue(Tail(possibleMigrations),
                      Append(queue, [version |-> m.toVersion, path |-> Append(path, m)]),
                      visited \cup {m.toVersion}, path)
         ELSE Enqueue(Tail(possibleMigrations), queue, visited, path)

RECURSIVE SearchFirstOnly(_, _, _, _)
\* the while loop of findMigrationPath, were only the first migration that
\* starts from the current version followed
SearchFirstOnly(queue, visited, availableMigrations, toVersion) ==
    IF queue = <<>> THEN <<>>
    ELSE LET currentVersion == Head(queue).version
             path == Head(queue).path
             possibleMigrations ==
                 SelectSeq(availableMigrations, LAMBDA m : m.fromVersion = currentVersion)
             first == IF possibleMigrations = <<>> THEN <<>>
                      ELSE <<Head(possibleMigrations)>>
             r == Enqueue(first, Tail(queue), visited, path)
         IN  IF currentVersion = toVersion THEN path
             ELSE SearchFirstOnly(r.queue, r.visited, availableMigrations, toVersion)

RECURSIVE Search(_, _, _, _)
\* findMigrationPath, the while loop over the queue
Search(queue, visited, availableMigrations, toVersion) ==
    IF queue = <<>> THEN <<>>
    ELSE LET currentVersion == Head(queue).version
             path == Head(queue).path
             possibleMigrations ==
                 SelectSeq(availableMigrations, LAMBDA m : m.fromVersion = currentVersion)
             r == Enqueue(possibleMigrations, Tail(queue), visited, path)
         IN  IF currentVersion = toVersion THEN path
             ELSE Search(r.queue, r.visited, availableMigrations, toVersion)

\* findMigrationPath
FindMigrationPath(availableMigrations, fromVersion, toVersion) ==
    Search(<<[version |-> fromVersion, path |-> <<>>]>>, {fromVersion},
           availableMigrations, toVersion)

\* the migration exported by the one migration file, v0.1.0 to v0.2.0
Migration == [fromVersion |-> "0.1.0", toVersion |-> "0.2.0"]

\* migrateFrom0_1_0To0_2_0, the backup: the file named with .0.1.0 before
\* .json gets the content of the data file (and replaces an older one)
WithBackup(files, originalData) ==
    {b \in files : b.suffix # "0.1.0"}
        \cup {[suffix |-> "0.1.0", content |-> originalData]}

\* the new ticket, were the dependencies field not deleted
MigrateTicketKeepsOld(legacyTicket) ==
    [legacyTicket EXCEPT !.blockedBy = legacyTicket.dependencies]

\* migrateFrom0_1_0To0_2_0, the new ticket: the legacy ticket with blockedBy
\* set to its dependencies and dependencies deleted
MigrateTicket(legacyTicket) ==
    [legacyTicket EXCEPT !.blockedBy = legacyTicket.dependencies,
                         !.dependencies = Absent]

\* migrateFrom0_1_0To0_2_0, newData
NewData(legacyData) ==
    [version |-> Some("0.2.0"),
     tickets |-> Some([i \in 1..Len(Get(legacyData.tickets)) |->
                          MigrateTicket(Get(legacyData.tickets)[i])]),
     nextId |-> legacyData.nextId]

\* Object.entries(legacyData.tickets) throws when the document has no tickets
TransformThrows(legacyData) == ~IsSome(legacyData.tickets)

\* new MigrationManager(dataFile), with the migrations its directory holds
Starting(availableMigrations) ==
    [phase |-> "start", availableMigrations |-> availableMigrations,
     path |-> <<>>, backedUp |-> FALSE]

\* runMigrationIfNeeded, were an empty path taken as nothing left to do
RunMigrationIgnoringNoPath ==
    /\ migration.phase = "start"
    /\ LET currentDataVersion == DetectDataVersion(dataFile)
           migrationPath == FindMigrationPath(migration.availableMigrations,
                                              currentDataVersion, CurrentAppVersion)
       IN  migration' =
               IF currentDataVersion = CurrentAppVersion \/ migrationPath = <<>>
               THEN [migration EXCEPT !.phase = "serving"]
               ELSE [migration EXCEPT !.phase = "migrating", !.path = migrationPath]
    /\ UNCHANGED <<dataFile, now, response, before, minted, backups, calls>>

\* runMigrationIfNeeded, were the early return on a current version left out
RunMigrationWithoutReturn ==
    /\ migration.phase = "start"
    /\ LET currentDataVersion == DetectDataVersion(dataFile)
           migrationPath == FindMigrationPath(migration.availableMigrations,
                                              currentDataVersion, CurrentAppVersion)
       IN  migration' =
               IF migrationPath = <<>>
               THEN [migration EXCEPT !.phase = "exited"]
               ELSE [migration EXCEPT !.phase = "migrating", !.path = migrationPath]
    /\ UNCHANGED <<dataFile, now, response, before, minted, backups, calls>>

\* runMigrationIfNeeded up to the loop: detect the version, return when it is
\* current, exit when no path is found, else take the path
RunMigrationIfNeeded ==
    /\ migration.phase = "start"
    /\ LET currentDataVersion == DetectDataVersion(dataFile)
           migrationPath == FindMigrationPath(migration.availableMigrations,
                                              currentDataVersion, CurrentAppVersion)
       IN  migration' =
               IF currentDataVersion = CurrentAppVersion
               THEN [migration EXCEPT !.phase = "serving"]
               ELSE IF migrationPath = <<>>
               THEN [migration EXCEPT !.phase = "exited"]
               ELSE [migration EXCEPT !.phase = "migrating", !.path = migrationPath]
    /\ UNCHANGED <<dataFile, now, response, before, minted, backups, calls>>

\* step.migrate, were the backup file not written
CreateBackupSkipped ==
    /\ migration.phase = "migrating"
    /\ ~migration.backedUp
    /\ migration' = [migration EXCEPT !.backedUp = TRUE]
    /\ UNCHANGED <<dataFile, now, response, before, minted, backups, calls>>

\* step.migrate, first write: the backup file
CreateBackup ==
    /\ migration.phase = "migrating"
    /\ ~migration.backedUp
    /\ backups' = WithBackup(backups, dataFile)
    /\ migration' = [migration EXCEPT !.backedUp = TRUE]
    /\ UNCHANGED <<dataFile, now, response, before, minted, calls>>

\* step.migrate, were a throw of the step caught and the start carried on
WriteMigratedDataCarriesOn ==
    /\ migration.phase = "migrating"
    /\ migration.backedUp
    /\ dataFile' = IF TransformThrows(dataFile) THEN dataFile ELSE NewData(dataFile)
    /\ migration' =
           [migration EXCEPT !.path = Tail(@), !.backedUp = FALSE,
                             !.phase = IF Len(migration.path) = 1
                                       THEN "serving" ELSE "migrating"]
    /\ UNCHANGED <<now, response, before, minted, backups, calls>>

\* step.migrate, second write: the data file; then the next step of the
\* path, or the end of runMigrationIfNeeded; a throw ends the process
WriteMigratedData ==
    /\ migration.phase = "migrating"
    /\ migration.backedUp
    /\ IF TransformThrows(dataFile)
       THEN /\ migration' = [migration EXCEPT !.phase = "exited"]
            /\ dataFile' = dataFile
       ELSE /\ dataFile' = NewData(dataFile)
            /\ migration' =
                   [migration EXCEPT !.path = Tail(@), !.backedUp = FALSE,
                                     !.phase = IF Len(migration.path) = 1
                                               THEN "serving" ELSE "migrating"]
    /\ UNCHANGED <<now, response, before, minted, backups, calls>>

\* the server is stopped and started again on the same data file
Restart ==
    /\ migration.phase = "serving"
    /\ migration' = Starting(migration.availableMigrations)
    /\ before' = dataFile
    /\ UNCHANGED <<dataFile, now, response, minted, backups, calls>>

\* the data files the process may find
StoredLists == {<<>>} \cup {<<TicketId(n)>> : n \in 1..MaxStored}
JsonLists == {Absent, NotArray} \cup {Array(l) : l \in StoredLists}
VersionFields == {None, Some("0.1.0"), Some("0.2.0"), Some("0.3.0")}
RawTicket(n, dependencies, blockedBy) ==
    [id |-> TicketId(n), title |-> "t1", description |-> "d1",
     projects |-> Some(<<>>), dependencies |-> dependencies, blockedBy |-> blockedBy,
     createdAt |-> 0, updatedAt |-> 0, status |-> "open"]
RawDoc(version, n, dependencies, blockedBy) ==
    [version |-> version,
     tickets |-> Some([i \in 1..n |-> RawTicket(i, dependencies[i], blockedBy[i])]),
     nextId |-> n + 1]
NoTicketsDoc(version) == [version |-> version, tickets |-> None, nextId |-> 1]

InitMigration ==
    /\ \E version \in VersionFields :
          \/ dataFile = NoTicketsDoc(version)
          \/ \E n \in 0..MaxStored :
                \E dependencies \in [1..n -> JsonLists], blockedBy \in [1..n -> JsonLists] :
                    dataFile = RawDoc(version, n, dependencies, blockedBy)
    /\ \E availableMigrations \in {<<>>, <<Migration>>} :
          migration = Starting(availableMigrations)
    /\ before = dataFile
    /\ backups = {}
    /\ now = 0
    /\ response = Idle
    /\ minted = <<>>
    /\ calls = {}

NextMigration ==
    \/ RunMigrationIfNeeded
    \/ CreateBackup
    \/ WriteMigratedData
    \/ Restart

SpecMigration == InitMigration /\ [][NextMigration]_vars

\* ------------------------------------------------- list on any stored file
\* listTickets on a document whose tickets carry project names; a ticket
\* that came from the oldest format has a projectId and no projects.
ProjectsStored == {Some(<<>>), Some(<<"Web">>), Some(<<"api", "web">>)}
ListedTicket(n, projects, blockedBy, status) ==
    [StoredTicket(n, blockedBy, status) EXCEPT !.projects = projects]
OldestTicket(n, projectId, blockedBy, status) ==
    [id |-> TicketId(n), title |-> "t1", description |-> "d1",
     projects |-> None, projectId |-> projectId, blockedBy |-> blockedBy,
     createdAt |-> 0, updatedAt |-> 0, status |-> status]
TicketsStored(n) ==
    {ListedTicket(n, projects, blockedBy, status) :
        projects \in ProjectsStored, blockedBy \in StoredLists, status \in {"open", "closed"}}
    \cup {OldestTicket(n, "Web", blockedBy, status) :
              blockedBy \in StoredLists, status \in {"open", "closed"}}

ListQueries ==
    [project : {None, Some("web"), Some("Web"), Some("api")},
     status : {None, Some("open"), Some("closed")},
     dependsOn : {None, Some(TicketId(1))}]

InitList ==
    /\ \E n \in 0..MaxStored :
          \E tickets \in [1..n -> UNION {TicketsStored(i) : i \in 1..n}] :
              /\ \A i \in 1..n : tickets[i].id = TicketId(i)
              /\ dataFile = [version |-> CurrentVersion, tickets |-> tickets, nextId |-> n + 1]
    /\ now = 0
    /\ response = Idle
    /\ before = dataFile
    /\ minted = <<>>
    /\ calls = {}
    /\ backups = {}
    /\ migration = Serving

NextList ==
    \/ \E a \in ListQueries : ListTicketsHandler(a)
    \/ Deliver

SpecList == InitList /\ [][NextList]_vars

\* ------------------------------------------------- the path search by itself
\* findMigrationPath on any catalog and any two versions
VersionInputs == {"0.1.0", "0.2.0", "0.3.0"}
MigrationInputs == [fromVersion : VersionInputs, toVersion : VersionInputs]

Searching(availableMigrations, fromVersion, toVersion) ==
    [phase |-> "search", availableMigrations |-> availableMigrations,
     fromVersion |-> fromVersion, toVersion |-> toVersion, path |-> <<>>]

\* const migrationPath = this.findMigrationPath(...)
FindPath ==
    /\ migration.phase = "search"
    /\ migration' =
          [migration EXCEPT !.phase = "found",
                            !.path = FindMigrationPath(migration.availableMigrations,
                                                       migration.fromVersion,
                                                       migration.toVersion)]
    /\ UNCHANGED <<dataFile, now, response, before, minted, backups, calls>>

InitPath ==
    /\ \E n \in 0..MaxSteps :
          \E availableMigrations \in [1..n -> MigrationInputs] :
              \E fromVersion \in VersionInputs, toVersion \in VersionInputs :
                  migration = Searching(availableMigrations, fromVersion, toVersion)
    /\ dataFile = InitialData
    /\ before = InitialData
    /\ backups = {}
    /\ now = 0
    /\ response = Idle
    /\ minted = <<>>
    /\ calls = {}

NextPath == FindPath

SpecPath == InitPath /\ [][NextPath]_vars

\* --------------------------------------------- version detection by itself
\* detectDataVersion on any document the process may find
Detecting == [phase |-> "detect"]

\* const currentDataVersion = this.detectDataVersion(rawData)
DetectVersion ==
    /\ migration.phase = "detect"
    /\ migration' = [phase |-> "detected", version |-> DetectDataVersion(dataFile)]
    /\ UNCHANGED <<dataFile, now, response, before, minted, backups, calls>>

InitDetect ==
    /\ \E version \in VersionFields :
          \/ dataFile = NoTicketsDoc(version)
          \/ \E n \in 0..MaxStored :
                \E dependencies \in [1..n -> JsonLists], blockedBy \in [1..n -> JsonLists] :
                    dataFile = RawDoc(version, n, dependencies, blockedBy)
    /\ migration = Detecting
    /\ before = dataFile
    /\ backups = {}
    /\ now = 0
    /\ response = Idle
    /\ minted = <<>>
    /\ calls = {}

NextDetect == DetectVersion

SpecDetect == InitDetect /\ [][NextDetect]_vars

\* -------------------------------------------- the start, then the tool calls
\* main: initialize() is awaited before run() connects the transport, so a
\* tool call is taken only once initializeDataFile has returned.  The data
\* file is the raw JSON document throughout; the service reads it as a
\* TicketStorage and writes it back as JSON.
NoFile == [kind |-> "nofile"]

\* the initialData that initializeDataFile writes when there is no file
RawInitialData == [version |-> Some("0.2.0"), tickets |-> Some(<<>>), nextId |-> 1]

\* the service can work on the document: its tickets are there and each has
\* a blockedBy array (filter, includes, length and every are called on it)
Readable(rawData) ==
    /\ rawData # NoFile
    /\ IsSome(rawData.tickets)
    /\ \A i \in 1..Len(Get(rawData.tickets)) : IsArray(Get(rawData.tickets)[i].blockedBy)

\* readData: JSON.parse, the result taken as a TicketStorage; what else the
\* document holds (no version, a dependencies field) stays in the object
ReadData(rawData) ==
    [version |-> rawData.version,
     tickets |-> [i \in 1..Len(Get(rawData.tickets)) |->
                     [Get(rawData.tickets)[i] EXCEPT !.blockedBy = @.items]],
     nextId |-> rawData.nextId]

\* JSON.stringify of one ticket
Stringify(ticket) ==
    [id |-> ticket.id, title |-> ticket.title, description |-> ticket.description,
     projects |-> ticket.projects,
     dependencies |-> IF "dependencies" \in DOMAIN ticket
                      THEN ticket.dependencies ELSE Absent,
     blockedBy |-> Array(ticket.blockedBy),
     createdAt |-> ticket.createdAt, updatedAt |-> ticket.updatedAt,
     status |-> ticket.status]

\* writeData: JSON.stringify of the storage
WriteData(storage) ==
    [version |-> storage.version,
     tickets |-> Some([i \in 1..Len(storage.tickets) |-> Stringify(storage.tickets[i])]),
     nextId |-> storage.nextId]

\* server.run(), were it not to wait for initialize()
AcceptingAtOnce == migration.phase \in {"start", "migrating", "serving"}

\* await server.initialize(); await server.run(): requests are taken once
\* initialize has returned
Accepting == migration.phase = "serving"

\* a tool call on the file the process was started on: the operation reads
\* the file, and writes it when it is a mutation that succeeds
Call(op, args, out) ==
    /\ now < MaxTime
    /\ dataFile' = IF out.error = NoError /\ op \in {"create", "delete"}
                   THEN WriteData(out.file) ELSE dataFile
    /\ now' = IF out.error = NoError /\ op \in {"create", "delete"} THEN now + 1 ELSE now
    /\ response' = Answer(op, args, out)
    /\ before' = dataFile
    /\ minted' = minted \o MintedBy(op, out)
    /\ UNCHANGED <<backups, migration, calls>>

StartedCreateInputs ==
    [title : {"t1"}, description : {"d1"}, projects : {<<>>},
     blockedBy : {<<>>, <<TicketId(1)>>}]

\* case 'create_ticket', single ticket format, on the file of the process
CreateTicketCall(a) ==
    /\ Accepting
    /\ Readable(dataFile)
    /\ response = Idle
    /\ dataFile.nextId <= MaxTickets
    /\ Call("create", a,
            CreateTicket(ReadData(dataFile), now, a.title, a.description,
                         Some(a.projects), a.blockedBy))

\* case 'read_ticket', on the file of the process
ReadTicketCall(ticketId) ==
    /\ Accepting
    /\ Readable(dataFile)
    /\ response = Idle
    /\ Call("read", ticketId, ReadTicket(ReadData(dataFile), ticketId))

\* case 'delete_ticket', on the file of the process
DeleteTicketCall(ticketId) ==
    /\ Accepting
    /\ Readable(dataFile)
    /\ response = Idle
    /\ Call("delete", ticketId, DeleteTicket(ReadData(dataFile), ticketId))

\* initializeDataFile: a new file of the current version when there is none,
\* else the migration check
InitializeDataFile ==
    /\ migration.phase = "start"
    /\ IF dataFile = NoFile
       THEN /\ dataFile' = RawInitialData
            /\ migration' = [migration EXCEPT !.phase = "serving"]
            /\ UNCHANGED <<now, response, before, minted, backups, calls>>
       ELSE RunMigrationIfNeeded

\* the server is stopped between two requests and started again
RestartIdle == response = Idle /\ Restart

InitStartup ==
    /\ \/ dataFile = NoFile
       \/ \E version \in VersionFields :
             \/ dataFile = NoTicketsDoc(version)
             \/ \E n \in 0..MaxStored :
                   \E dependencies \in [1..n -> JsonLists], blockedBy \in [1..n -> JsonLists] :
                       dataFile = RawDoc(version, n, dependencies, blockedBy)
    /\ \E availableMigrations \in {<<>>, <<Migration>>} :
          migration = Starting(availableMigrations)
    /\ before = dataFile
    /\ backups = {}
    /\ now = 0
    /\ response = Idle
    /\ minted = <<>>
    /\ calls = {}

NextStartup ==
    \/ InitializeDataFile
    \/ CreateBackup
    \/ WriteMigratedData
    \/ \E a \in StartedCreateInputs : CreateTicketCall(a)
    \/ \E id \in IdInputs : ReadTicketCall(id)
    \/ \E id \in IdInputs : DeleteTicketCall(id)
    \/ Deliver
    \/ RestartIdle

SpecStartup == InitStartup /\ [][NextStartup]_vars


\* ------------------------------------------- instances sharing one data file
\* Every service operation reads the file (readData), works on what it read
\* and writes the file (writeData).  Inside one process these steps are one
\* synchronous stretch of the CallTool handler; the steps of two processes
\* started on the same path fall in any order.
MaxInstances == 2    \* server processes started on the same data file

Instances == 1..MaxInstances

\* the tool calls the clients of the instances send
CreateRequest(blockedBy) == [op |-> "create", ticketId |-> NoId, blockedBy |-> blockedBy]
DeleteRequest(ticketId) == [op |-> "delete", ticketId |-> ticketId, blockedBy |-> <<>>]
Requests ==
    {CreateRequest(<<>>)} \cup {DeleteRequest(id) : id \in IdInputs}

\* the operation of a request on the storage it was given
Perform(request, storage, time) ==
    IF request.op = "create"
    THEN CreateTicket(storage, time, "t1", "d1", Some(<<>>), request.blockedBy)
    ELSE IF request.op = "delete"
    THEN DeleteTicket(storage, request.ticketId)
    ELSE UpdateTickets(storage, time, request.updates)

\* the handler, were it to give way to other requests of its process between
\* readData and writeData
CanStartAlways(instance) == TRUE

\* the handler runs from readData to writeData without an await: the process
\* takes up a request only when no operation of its own is under way
CanStart(instance) == \A c \in calls : c.instance # instance

\* const storage = this.readData(), first statement of the operation
ReadDataStep(instance, request) ==
    /\ CanStart(instance)
    /\ now < MaxTime
    /\ request.op = "create" => dataFile.nextId <= MaxTickets
    /\ calls' = calls \cup {[instance |-> instance, request |-> request,
                              storage |-> dataFile, time |-> now, stale |-> FALSE]}
    /\ UNCHANGED <<dataFile, now, response, before, minted, backups, migration>>

\* what the operation of call c arrives at, were the file read again right
\* before the write
ResultOnFreshFile(c) == Perform(c.request, dataFile, c.time)

\* what the operation of call c arrives at: it works on the storage it read
Result(c) == Perform(c.request, c.storage, c.time)

\* the rest of the operation: validate, change the storage, writeData (a
\* failed validation throws and nothing is written), and the answer.  A call
\* of another instance that has read the file before this write is marked
\* stale.
WriteDataStep(c) ==
    /\ c \in calls
    /\ LET out == Result(c) IN
       /\ dataFile' = IF out.error = NoError THEN out.file ELSE dataFile
       /\ now' = IF out.error = NoError /\ now < MaxTime THEN now + 1 ELSE now
       /\ response' = Answer(c.request.op, c.request, out)
       /\ before' = c.storage
       /\ minted' = minted \o MintedBy(c.request.op, out)
       /\ calls' = {[d EXCEPT !.stale = @ \/ (out.error = NoError /\ d.instance # c.instance)] :
                       d \in calls \ {c}}
    /\ UNCHANGED <<backups, migration>>

InitRace ==
    /\ dataFile = InitialData
    /\ now = 0
    /\ response = Idle
    /\ before = InitialData
    /\ minted = <<>>
    /\ calls = {}
    /\ backups = {}
    /\ migration = Serving

NextRace ==
    \/ \E instance \in Instances, request \in Requests : ReadDataStep(instance, request)
    \/ \E c \in calls : WriteDataStep(c)

SpecRace == InitRace /\ [][NextRace]_vars

\* the same instances, their clients also sending creates of blocked tickets
\* and updates of blockedBy, alone or two in a batch
UpdateRequest(updates) == [op |-> "updateBatch", updates |-> updates]
Blocking(ticketId, blocker) == Update(ticketId, None, None, Some(<<blocker>>), None)
SharedRequests ==
    {CreateRequest(<<>>), CreateRequest(<<TicketId(1)>>),
     DeleteRequest(TicketId(1)), DeleteRequest(TicketId(2)),
     UpdateRequest(<<Blocking(TicketId(1), TicketId(2))>>),
     UpdateRequest(<<Blocking(TicketId(2), TicketId(1))>>),
     UpdateRequest(<<Blocking(TicketId(1), TicketId(2)),
                     Blocking(TicketId(2), TicketId(1))>>)}

NextShared ==
    \/ \E instance \in Instances, request \in SharedRequests :
          ReadDataStep(instance, request)
    \/ \E c \in calls : WriteDataStep(c)

SpecShared == InitRace /\ [][NextShared]_vars

\* ------------------------------------------------- the cycle check by itself
\* checkCircularDependency on any candidate, any list and any stored
\* document, whose lists may name missing tickets and close cycles
CycleIds == {TicketId(n) : n \in 1..(MaxTickets + 1)}
CycleLists == UNION {[1..n -> CycleIds] : n \in 0..MaxLen}

\* this.checkCircularDependency(ticketId, blockedBy, storage): it throws
\* 'Circular dependency detected' or returns
CheckCircularDependencyStep(ticketId, blockedBy) ==
    /\ response = Idle
    /\ response' =
          Answer("check", [ticketId |-> ticketId, blockedBy |-> blockedBy],
                 Outcome(IF CheckCircularDependency(ticketId, blockedBy, dataFile)
                         THEN Err("circular", NoId) ELSE NoError,
                         dataFile, <<>>))
    /\ UNCHANGED <<dataFile, now, before, minted, backups, migration, calls>>

InitCycle ==
    /\ \E n \in 0..MaxTickets :
          \E lists \in [1..n -> CycleLists] :
              dataFile = [version |-> CurrentVersion,
                          tickets |-> [i \in 1..n |-> StoredTicket(i, lists[i], "open")],
                          nextId |-> n + 1]
    /\ now = 0
    /\ response = Idle
    /\ before = dataFile
    /\ minted = <<>>
    /\ calls = {}
    /\ backups = {}
    /\ migration = Serving

NextCycle ==
    \E ticketId \in CycleIds, blockedBy \in CycleLists :
        CheckCircularDependencyStep(ticketId, blockedBy)

SpecCycle == InitCycle /\ [][NextCycle]_vars

\* ================================================================== claims
\* The blockedBy graph of a document, written without the code's traversal.
Blockers(storage, id) ==
    IF HasTicket(storage, id) THEN Range(TicketOf(storage, id).blockedBy) ELSE {}

RECURSIVE Closure(_, _)
Closure(storage, S) ==
    LET T == S \cup UNION {Blockers(storage, id) : id \in S}
    IN  IF T = S THEN S ELSE Closure(storage, T)

\* the ids reached from id by one or more blockedBy edges
ReachableFrom(storage, id) == Closure(storage, Blockers(storage, id))
Acyclic(storage) == \A id \in Keys(storage) : id \notin ReachableFrom(storage, id)

Answered(op) == response.op = op
Succeeded(op) == response.op = op /\ response.error = NoError
Failed(op) == response.op = op /\ response.error # NoError
Untouched == dataFile = before

\* C1: from a fresh document, after any sequence of create, createBatch,
\* updateBatch and delete calls the blockedBy graph of the persisted document
\* has no cycle.
C1_Acyclic == Acyclic(dataFile)

NamesItself(r, file) ==
    \/ /\ r.op = "create"
       /\ Includes(r.args.blockedBy, TicketId(file.nextId))
    \/ /\ r.op = "createBatch"
       /\ \E i \in 1..Len(r.args) :
             Includes(r.args[i].blockedBy, TicketId(file.nextId + i - 1))
    \/ /\ r.op = "updateBatch"
       /\ \E i \in 1..Len(r.args) :
             /\ IsSome(r.args[i].blockedBy)
             /\ Includes(Get(r.args[i].blockedBy), r.args[i].ticketId)

\* C2: no persisted ticket has its own id in its blockedBy, and every create
\* or update whose blockedBy names the ticket itself is rejected with the
\* document unwritten.
C2_NoSelfReference ==
    /\ \A i \in 1..Len(dataFile.tickets) :
          ~Includes(dataFile.tickets[i].blockedBy, dataFile.tickets[i].id)
    /\ NamesItself(response, before) => response.error # NoError /\ Untouched

\* an update naming its own ticket was turned down on a document with tickets
C2_Witness ==
    /\ Failed("updateBatch")
    /\ response.error.kind = "self-dependency"
    /\ NamesItself(response, before)
    /\ dataFile.tickets # <<>>

NamesMissing(r, file) ==
    \/ /\ r.op = "create"
       /\ \E d \in Range(r.args.blockedBy) : ~HasTicket(file, d)
    \/ /\ r.op = "createBatch"
       /\ \E i \in 1..Len(r.args) :
             \E d \in Range(r.args[i].blockedBy) : ~HasTicket(file, d)
    \/ /\ r.op = "updateBatch"
       /\ \E i \in 1..Len(r.args) :
             /\ IsSome(r.args[i].blockedBy)
             /\ \E d \in Range(Get(r.args[i].blockedBy)) : ~HasTicket(file, d)

WithBlockedBy(storage, id, list) ==
    [storage EXCEPT !.tickets[IndexOf(storage, id)].blockedBy = list]

\* some cycle of the graph is reached from id
ReachesCycle(storage, id) ==
    \E n \in {id} \cup ReachableFrom(storage, id) : n \in ReachableFrom(storage, n)

\* update u, taken alone, is invalid on the document file
UpdateFails(u, file) ==
    \/ ~HasTicket(file, u.ticketId)
    \/ /\ IsSome(u.blockedBy)
       /\ \/ Includes(Get(u.blockedBy), u.ticketId)
          \/ \E d \in Range(Get(u.blockedBy)) : ~HasTicket(file, d)
          \/ ReachesCycle(WithBlockedBy(file, u.ticketId, Get(u.blockedBy)), u.ticketId)

\* item d of a createBatch is invalid on the document file
CreateFails(d, file) == \E x \in Range(d.blockedBy) : ~HasTicket(file, x)

SomeItemFails(r, file) ==
    \/ r.op = "createBatch" /\ \E i \in 1..Len(r.args) : CreateFails(r.args[i], file)
    \/ r.op = "updateBatch" /\ \E i \in 1..Len(r.args) : UpdateFails(r.args[i], file)

\* C4: createBatch and updateBatch are all-or-nothing: when any item of the
\* batch fails validation, at whatever position, the call returns an error
\* and the persisted document is the one before the call.
C4_BatchAtomic ==
    SomeItemFails(response, before) => response.error # NoError /\ Untouched

\* a batch whose first update is valid and whose second is not was turned down
C4_Witness ==
    /\ Failed("updateBatch")
    /\ Len(response.args) = 2
    /\ ~UpdateFails(response.args[1], before)
    /\ IsSome(response.args[1].status)
    /\ UpdateFails(response.args[2], before)

\* C5: an updateBatch that names an unknown ticket id fails with the
\* not-found error and changes nothing, whatever is wrong with the
\* blockedBy of the other updates of the batch.
C5_NotFoundFirst ==
    (/\ Answered("updateBatch")
     /\ \E i \in 1..Len(response.args) : ~HasTicket(before, response.args[i].ticketId))
    => response.error.kind = "not-found" /\ Untouched

\* not-found was answered although an earlier update of the batch, on an
\* existing ticket, carried an invalid blockedBy
C5_Witness ==
    /\ Failed("updateBatch")
    /\ response.error.kind = "not-found"
    /\ Len(response.args) = 2
    /\ HasTicket(before, response.args[1].ticketId)
    /\ UpdateFails(response.args[1], before)
    /\ ~HasTicket(before, response.args[2].ticketId)

\* update u makes ticket A = u.ticketId blocked by a ticket B that A blocks,
\* directly or through other tickets
BlocksItsBlocker(u, file) ==
    /\ HasTicket(file, u.ticketId)
    /\ IsSome(u.blockedBy)
    /\ \E b \in Range(Get(u.blockedBy)) :
          /\ b # u.ticketId
          /\ HasTicket(file, b)
          /\ u.ticketId \in ReachableFrom(file, b)

\* every id of the new list is another, existing ticket
ListIsValid(u, file) ==
    \A d \in Range(Get(u.blockedBy)) : d # u.ticketId /\ HasTicket(file, d)

\* C6 as claimed: an update that sets A's blockedBy to a list containing a
\* ticket B blocked (directly or transitively) by A fails with the
\* circular-dependency error and leaves the document unchanged.
C6_CircularError ==
    (/\ Answered("updateBatch")
     /\ Len(response.args) = 1
     /\ BlocksItsBlocker(response.args[1], before))
    => response.error.kind = "circular" /\ Untouched

\* C6 as amended: every updateBatch holding such an update fails and leaves
\* the document unchanged; the error is the circular-dependency error when
\* the update is alone in its batch and every id of its list is another,
\* existing ticket.
C6_Rejected ==
    (/\ Answered("updateBatch")
     /\ \E i \in 1..Len(response.args) : BlocksItsBlocker(response.args[i], before))
    => /\ response.error # NoError
       /\ Untouched
       /\ (Len(response.args) = 1 /\ ListIsValid(response.args[1], before))
              => response.error.kind = "circular"

\* the circular-dependency error answered an update of A naming a ticket
\* that A blocks only through a third ticket
C6_Witness ==
    /\ Failed("updateBatch")
    /\ response.error.kind = "circular"
    /\ Len(response.args) = 1
    /\ BlocksItsBlocker(response.args[1], before)
    /\ \E b \in Range(Get(response.args[1].blockedBy)) :
          /\ response.args[1].ticketId \in ReachableFrom(before, b)
          /\ response.args[1].ticketId \notin Blockers(before, b)

RECURSIVE Removed(_, _)
\* the list s without the entries equal to x, the others in their order
Removed(s, x) ==
    IF s = <<>> THEN <<>>
    ELSE IF Head(s) = x THEN Removed(Tail(s), x)
    ELSE <<Head(s)>> \o Removed(Tail(s), x)

\* C7: a successful delete(id) removes the key id and removes id from the
\* blockedBy of every other ticket; every other ticket keeps its title,
\* description, projects, status, createdAt and the remaining entries of its
\* blockedBy in their order, and nextId is unchanged.
C7_DeleteFrame ==
    Succeeded("delete") =>
        /\ ~HasTicket(dataFile, response.args)
        /\ Keys(dataFile) = Keys(before) \ {response.args}
        /\ Len(dataFile.tickets) = Len(before.tickets) - 1
        /\ dataFile.nextId = before.nextId
        /\ \A i \in 1..Len(before.tickets) :
              LET old == before.tickets[i] IN
              old.id # response.args =>
                  LET new == TicketOf(dataFile, old.id) IN
                  /\ new.title = old.title
                  /\ new.description = old.description
                  /\ new.projects = old.projects
                  /\ new.status = old.status
                  /\ new.createdAt = old.createdAt
                  /\ new.blockedBy = Removed(old.blockedBy, response.args)

\* a ticket was deleted that another ticket named next to a second blocker
C7_Witness ==
    /\ Succeeded("delete")
    /\ \E i \in 1..Len(before.tickets) :
          LET old == before.tickets[i] IN
          /\ old.id # response.args
          /\ Includes(old.blockedBy, response.args)
          /\ \E d \in Range(old.blockedBy) : d # response.args


ResultIds(result) == [i \in 1..Len(result) |-> result[i].id]

\* ticket t of the document is ready: not closed, and every id of its
\* blockedBy is the key of a closed ticket
Ready(t, storage) ==
    /\ t.status # "closed"
    /\ \A d \in Range(t.blockedBy) :
          \E j \in 1..Len(storage.tickets) :
              storage.tickets[j].id = d /\ storage.tickets[j].status = "closed"

ReadyIds(storage) ==
    {storage.tickets[i].id :
        i \in {j \in 1..Len(storage.tickets) : Ready(storage.tickets[j], storage)}}

\* C8: next() without a project filter returns exactly the tickets that are
\* not closed and whose every blockedBy id is the key of an existing closed
\* ticket; a ticket naming a missing blocker and a closed ticket are never
\* returned.
C8_NextExact ==
    (Answered("next") /\ response.args = None) =>
        /\ Range(ResultIds(response.result)) = ReadyIds(dataFile)
        /\ Len(response.result) = Cardinality(ReadyIds(dataFile))
        /\ \A i \in 1..Len(response.result) :
              LET t == TicketOf(dataFile, response.result[i].id) IN
              /\ t.status # "closed"
              /\ \A d \in Range(t.blockedBy) : HasTicket(dataFile, d)

\* next() answered on a document where an open ticket names a closed ticket
\* and a missing one, and was held back
C8_Witness ==
    /\ Answered("next")
    /\ \E i \in 1..Len(dataFile.tickets) :
          LET t == dataFile.tickets[i] IN
          /\ t.status # "closed"
          /\ \E d \in Range(t.blockedBy) : ~HasTicket(dataFile, d)
          /\ \E d \in Range(t.blockedBy) : HasTicket(dataFile, d)
          /\ \A d \in Range(t.blockedBy) :
                HasTicket(dataFile, d) => TicketOf(dataFile, d).status = "closed"
          /\ ~Includes(ResultIds(response.result), t.id)

\* the document holds A, B blocked by A and C blocked by B
IsChain(storage) ==
    /\ Len(storage.tickets) = 3
    /\ storage.tickets[1].blockedBy = <<>>
    /\ storage.tickets[2].blockedBy = <<storage.tickets[1].id>>
    /\ storage.tickets[3].blockedBy = <<storage.tickets[2].id>>

StatusIn(storage, id) == TicketOf(storage, id).status
NextIds(storage) == Range(ResultIds(NextTickets(storage, None).result))

\* C9: with A, B blocked by A and C blocked by B, next() returns only A, and
\* only B once A is closed; over any update, a ticket that stays open with
\* the same blockedBy enters next() exactly when the last of its non-closed
\* blockers is closed, and a closed ticket is not in next().
C9_Unblocking ==
    /\ (Answered("next") /\ response.args = None /\ IsChain(dataFile)) =>
          LET t == dataFile.tickets IN
          /\ (\A i \in 1..3 : t[i].status # "closed")
                => ResultIds(response.result) = <<t[1].id>>
          /\ (t[1].status = "closed" /\ t[2].status # "closed" /\ t[3].status # "closed")
                => ResultIds(response.result) = <<t[2].id>>
    /\ Succeeded("updateBatch") =>
          \A i \in 1..Len(dataFile.tickets) :
              LET new == dataFile.tickets[i]
                  old == TicketOf(before, new.id)
              IN  /\ new.status = "closed" => new.id \notin NextIds(dataFile)
                  /\ (/\ new.status # "closed"
                      /\ old.status # "closed"
                      /\ new.blockedBy = old.blockedBy)
                     => ((new.id \notin NextIds(before) /\ new.id \in NextIds(dataFile))
                         <=> /\ \E d \in Range(new.blockedBy) : StatusIn(before, d) # "closed"
                             /\ \A d \in Range(new.blockedBy) : StatusIn(dataFile, d) = "closed")

\* next() answered only B after A of the chain A, B, C was closed
C9_Witness ==
    /\ Answered("next")
    /\ IsChain(dataFile)
    /\ dataFile.tickets[1].status = "closed"
    /\ dataFile.tickets[2].status # "closed"
    /\ dataFile.tickets[3].status # "closed"
    /\ ResultIds(response.result) = <<dataFile.tickets[2].id>>

\* the ids of the tickets that are not closed and name id in their blockedBy
OpenDependentIds(storage, id) ==
    {storage.tickets[i].id :
        i \in {j \in 1..Len(storage.tickets) :
                  /\ Includes(storage.tickets[j].blockedBy, id)
                  /\ storage.tickets[j].status # "closed"}}

RECURSIVE NodeIds(_)
\* every id that labels a node of the trees
NodeIds(nodes) ==
    IF nodes = <<>> THEN {}
    ELSE {Head(nodes).id} \cup NodeIds(Head(nodes).unblocks) \cup NodeIds(Tail(nodes))

RECURSIVE ChildrenAsClaimed(_, _, _)
\* nodes are exactly the open dependents of id, each with such a tree below
ChildrenAsClaimed(id, nodes, storage) ==
    /\ Range(ResultIds(nodes)) = OpenDependentIds(storage, id)
    /\ Len(nodes) = Cardinality(OpenDependentIds(storage, id))
    /\ \A i \in 1..Len(nodes) :
          ChildrenAsClaimed(nodes[i].id, nodes[i].unblocks, storage)

RECURSIVE ChildrenOnPath(_, _, _, _)
\* the same, except that a ticket met again on its own path has no children
ChildrenOnPath(id, nodes, path, storage) ==
    IF id \in path THEN nodes = <<>>
    ELSE /\ Range(ResultIds(nodes)) = OpenDependentIds(storage, id)
         /\ Len(nodes) = Cardinality(OpenDependentIds(storage, id))
         /\ \A i \in 1..Len(nodes) :
               ChildrenOnPath(nodes[i].id, nodes[i].unblocks, path \cup {id}, storage)

RECURSIVE OpenChain(_, _)
\* the tickets reached from S through dependents that are not closed
OpenChain(storage, S) ==
    LET T == S \cup UNION {OpenDependentIds(storage, id) : id \in S}
    IN  IF T = S THEN S ELSE OpenChain(storage, T)

ClosedIds(storage) ==
    {storage.tickets[i].id :
        i \in {j \in 1..Len(storage.tickets) : storage.tickets[j].status = "closed"}}

\* C10 as claimed: the research tree of T has as children exactly the
\* non-closed tickets whose blockedBy contains T, each child carrying its own
\* research tree; no closed ticket is a node, nor is a ticket that depends on
\* T only through a closed ticket.
C10_TreeAsClaimed ==
    Answered("next") =>
        \A i \in 1..Len(response.result) :
            LET root == response.result[i] IN
            /\ ChildrenAsClaimed(root.id, root.researchTree, dataFile)
            /\ NodeIds(root.researchTree) \cap ClosedIds(dataFile) = {}
            /\ NodeIds(root.researchTree)
                  = OpenChain(dataFile, OpenDependentIds(dataFile, root.id))

\* C10 as amended: the same, except that a ticket that is already on the
\* path from the root down to it appears with an empty child list.
C10_TreeOnPath ==
    Answered("next") =>
        \A i \in 1..Len(response.result) :
            LET root == response.result[i] IN
            /\ ChildrenOnPath(root.id, root.researchTree, {}, dataFile)
            /\ NodeIds(root.researchTree) \cap ClosedIds(dataFile) = {}
            /\ NodeIds(root.researchTree)
                  = OpenChain(dataFile, OpenDependentIds(dataFile, root.id))

\* next() returned a ticket whose tree is two levels deep while a closed
\* ticket that names the root stays out of it
C10_Witness ==
    /\ Answered("next")
    /\ \E i \in 1..Len(response.result) :
          LET root == response.result[i] IN
          /\ \E k \in 1..Len(root.researchTree) : root.researchTree[k].unblocks # <<>>
          /\ \E c \in ClosedIds(dataFile) :
                Includes(TicketOf(dataFile, c).blockedBy, root.id)

RECURSIVE Depth(_)
\* the number of levels of nodes in the trees
Depth(nodes) ==
    IF nodes = <<>> THEN 0
    ELSE LET d1 == 1 + Depth(Head(nodes).unblocks)
             d2 == Depth(Tail(nodes))
         IN  IF d1 >= d2 THEN d1 ELSE d2

RECURSIVE ExpandedOnce(_, _)
\* below the tickets of path, a node whose id is already on its path has no
\* children: no id is expanded twice on a path
ExpandedOnce(nodes, path) ==
    \A i \in 1..Len(nodes) :
        /\ nodes[i].id \in path => nodes[i].unblocks = <<>>
        /\ ExpandedOnce(nodes[i].unblocks, path \cup {nodes[i].id})

\* C11: building the research tree terminates for every stored document,
\* also when its blockedBy graph has a cycle or a self-reference: along every
\* path from the root each ticket id is expanded at most once, and the tree
\* is at most as deep as the document has tickets.
C11_TreeBounded ==
    Answered("next") =>
        \A i \in 1..Len(response.result) :
            LET root == response.result[i] IN
            /\ ExpandedOnce(root.researchTree, {root.id})
            /\ Depth(root.researchTree) <= Len(dataFile.tickets)

\* next() built a tree through a cycle of open tickets: a ticket is met
\* again below itself and is a leaf there
C11_Witness ==
    /\ Answered("next")
    /\ ~Acyclic(dataFile)
    /\ \E i \in 1..Len(response.result) :
          \E k \in 1..Len(response.result[i].researchTree) :
              LET node == response.result[i].researchTree[k] IN
              \E c \in 1..Len(node.unblocks) :
                  \E g \in 1..Len(node.unblocks[c].unblocks) :
                      /\ node.unblocks[c].unblocks[g].id = node.id
                      /\ node.unblocks[c].unblocks[g].unblocks = <<>>

RECURSIVE IdNumber(_)
\* the number a digit string stands for: the numeric suffix of an id
IdNumber(id) ==
    IF id = <<>> THEN 0
    ELSE 10 * IdNumber(SubSeq(id, 1, Len(id) - 1)) + id[Len(id)]

\* C12: from a fresh document, nextId never decreases and is strictly greater
\* than the numeric suffix of every id ever minted, so no id is minted twice,
\* also after the ticket that carried it is deleted.
C12_NextIdAhead ==
    /\ dataFile.nextId >= before.nextId
    /\ \A i \in 1..Len(minted) : IdNumber(minted[i]) < dataFile.nextId
    /\ \A i, j \in 1..Len(minted) : i # j => minted[i] # minted[j]
    /\ Keys(dataFile) \subseteq Range(minted)

\* a create succeeded after the last ticket minted before it was deleted
C12_Witness ==
    /\ Succeeded("create")
    /\ Len(minted) >= 2
    /\ ~HasTicket(before, minted[Len(minted) - 1])
    /\ response.result[1].id = minted[Len(minted)]

\* C13: a create call that fails validation leaves the persisted nextId and
\* tickets unchanged, so the next successful create mints the id the failed
\* call would have received.
C13_FailedCreateMintsNothing ==
    /\ (Failed("create") \/ Failed("createBatch")) =>
          /\ dataFile.nextId = before.nextId
          /\ dataFile.tickets = before.tickets
          /\ \A a \in CreateInputs :
                LET o == CreateTicket(dataFile, now, a.title, a.description,
                                      Some(a.projects), a.blockedBy)
                IN  o.error = NoError
                        => ResultIds(o.result) = <<TicketId(before.nextId)>>
    /\ Succeeded("create") => ResultIds(response.result) = <<TicketId(before.nextId)>>

\* a create naming a missing ticket was turned down on a document that holds
\* tickets
C13_Witness ==
    /\ Failed("create")
    /\ response.error.kind = "missing-dependency"
    /\ before.tickets # <<>>
    /\ before.nextId > Len(before.tickets) + 1

LacksField(d) == d.title = "" \/ d.description = ""

\* item j of the batch names the id an earlier item of the batch would get
NamesEarlierItem(items, file) ==
    \E j \in 1..Len(items) :
        \E i \in 1..(j - 1) : Includes(items[j].blockedBy, TicketId(file.nextId + i - 1))

\* C14: createBatch validates every item's blockedBy against the document as
\* it was before the call: a batch in which an item names the id an earlier
\* item of the batch would be given is rejected with the missing-dependency
\* error and nothing is created.  (createBatch is createTickets: the batches
\* are those the handler passes on to it, whose items all have a title and a
\* description.)
C14_BatchItemsCannotReferToEachOther ==
    (/\ Answered("createBatch")
     /\ \A i \in 1..Len(response.args) : ~LacksField(response.args[i])) =>
        /\ NamesEarlierItem(response.args, before) =>
              /\ response.error.kind = "missing-dependency"
              /\ Untouched
        /\ response.error = NoError =>
              \A j \in 1..Len(response.args) :
                  Range(response.args[j].blockedBy) \subseteq Keys(before)

\* on a document with tickets, a batch of two whose second item names only
\* the id of the first was turned down
C14_Witness ==
    /\ Failed("createBatch")
    /\ before.tickets # <<>>
    /\ Len(response.args) = 2
    /\ response.args[1].blockedBy = <<>>
    /\ response.args[2].blockedBy = <<TicketId(before.nextId)>>
    /\ response.error = Err("missing-dependency", TicketId(before.nextId))

\* the first id of the updates that is not a key of the document
FirstUnknown(updates, file) ==
    updates[CHOOSE i \in 1..Len(updates) :
                /\ ~HasTicket(file, updates[i].ticketId)
                /\ \A k \in 1..(i - 1) : HasTicket(file, updates[k].ticketId)].ticketId

ErrorKinds ==
    {"self-dependency", "missing-dependency", "circular", "not-found", "invalid-params"}

\* C16: every validation or not-found failure of a ticket operation comes
\* back to the caller as an error result and does not stop the server: the
\* document is the one before the call, the answer can be taken, and the
\* server then accepts the next request.
C16_FailureIsAnAnswer ==
    /\ (response # Idle /\ response.error # NoError) =>
          /\ response.error.kind \in ErrorKinds
          /\ response.result = <<>>
          /\ Untouched
          /\ ENABLED Deliver
    /\ response = Idle =>
          /\ \A id \in IdInputs : ENABLED ReadTicketHandler(id)
          /\ ENABLED NextTicketsHandler(None)
          /\ now < MaxTime => \A id \in IdInputs : ENABLED DeleteTicketHandler(id)

\* an update that would close a cycle was answered with an error on a
\* document of three tickets
C16_Witness ==
    /\ Failed("updateBatch")
    /\ response.error.kind = "circular"
    /\ Len(dataFile.tickets) = 3
    /\ ENABLED Deliver

\* C17: a create request without a title or without a description is rejected
\* with an error and writes nothing; in the batch form one item lacking title
\* or description rejects the whole batch before any ticket is created or any
\* id is minted.
C17_TitleAndDescriptionRequired ==
    /\ (Answered("create") /\ LacksField(response.args)) =>
          /\ response.error = InvalidParams
          /\ Untouched
    /\ (Answered("createBatch") /\ \E i \in 1..Len(response.args) : LacksField(response.args[i])) =>
          /\ response.error = InvalidParams
          /\ Untouched
          /\ \A i \in 1..Len(minted) : IdNumber(minted[i]) < before.nextId
    /\ \A i \in 1..Len(dataFile.tickets) : ~LacksField(dataFile.tickets[i])

\* a batch whose first item is complete and whose second lacks a field was
\* turned down on a document with tickets
C17_Witness ==
    /\ Failed("createBatch")
    /\ Len(response.args) = 2
    /\ ~LacksField(response.args[1])
    /\ LacksField(response.args[2])
    /\ before.tickets # <<>>

\* C18: the migration check on a document whose detected version is the
\* current version writes nothing to the data file and creates no backup
\* (before is the data file as the process found it; no backup ever holds a
\* document of the current version); so a second check after a completed
\* migration, which leaves a document of the current version, changes nothing.
C18_CheckOnCurrentVersionWritesNothing ==
    /\ (migration.phase # "start" /\ DetectDataVersion(before) = CurrentAppVersion) =>
          /\ migration.phase = "serving"
          /\ dataFile = before
    /\ \A b \in backups : DetectDataVersion(b.content) # CurrentAppVersion
    /\ migration.phase = "serving" => DetectDataVersion(dataFile) = CurrentAppVersion

\* the process was started again on a file it had migrated before, and its
\* check has returned
C18_Witness ==
    /\ migration.phase = "serving"
    /\ backups # {}
    /\ dataFile = before
    /\ \E b \in backups : b.content # dataFile

\* a document without a version field whose tickets all carry a dependencies
\* array
IsLegacy(doc) ==
    /\ doc.version = None
    /\ IsSome(doc.tickets)
    /\ \A i \in 1..Len(Get(doc.tickets)) : IsArray(Get(doc.tickets)[i].dependencies)

\* C19: migrating a document that has no version field and whose tickets
\* carry a dependencies array yields a document with the current version, the
\* same ticket keys and the same nextId, in which every ticket's blockedBy is
\* its former dependencies and no ticket has a dependencies field; the backup
\* file suffixed with the old version holds the original content.
C19_LegacyDocumentMigrated ==
    (IsLegacy(before) /\ migration.availableMigrations # <<>>) =>
        /\ migration.phase # "exited"
        /\ migration.phase = "serving" =>
              LET old == Get(before.tickets)
                  new == Get(dataFile.tickets)
              IN  /\ dataFile.version = Some(CurrentAppVersion)
                  /\ dataFile.nextId = before.nextId
                  /\ Len(new) = Len(old)
                  /\ \A i \in 1..Len(old) :
                        /\ new[i].id = old[i].id
                        /\ new[i].blockedBy = old[i].dependencies
                        /\ ~In(new[i].dependencies)
                        /\ new[i].title = old[i].title
                        /\ new[i].description = old[i].description
                        /\ new[i].projects = old[i].projects
                        /\ new[i].status = old[i].status
                        /\ new[i].createdAt = old[i].createdAt
                        /\ new[i].updatedAt = old[i].updatedAt
                  /\ backups = {[suffix |-> OldestVersion, content |-> before]}

\* a legacy document of two tickets, one depending on the other, has been
\* migrated
C19_Witness ==
    /\ migration.phase = "serving"
    /\ IsLegacy(before)
    /\ Len(Get(before.tickets)) = 2
    /\ Get(before.tickets)[1].dependencies = Array(<<TicketId(2)>>)
    /\ Get(before.tickets)[2].dependencies = Array(<<>>)
    /\ dataFile # before

RECURSIVE ReachedWithin(_, _, _)
\* the versions reached from the versions S by at most k migrations
ReachedWithin(availableMigrations, S, k) ==
    IF k = 0 THEN S
    ELSE ReachedWithin(availableMigrations,
                       S \cup {m.toVersion : m \in {x \in Range(availableMigrations) :
                                                       x.fromVersion \in S}},
                       k - 1)

Connected(availableMigrations, fromVersion, toVersion) ==
    toVersion \in ReachedWithin(availableMigrations, {fromVersion}, Len(availableMigrations))

\* the least number of migrations that lead from fromVersion to toVersion
MinSteps(availableMigrations, fromVersion, toVersion) ==
    CHOOSE k \in 0..Len(availableMigrations) :
        /\ toVersion \in ReachedWithin(availableMigrations, {fromVersion}, k)
        /\ \A j \in 0..(k - 1) :
              toVersion \notin ReachedWithin(availableMigrations, {fromVersion}, j)

\* path starts at fromVersion, ends at toVersion, and every step starts where
\* the one before it ends
Connects(path, fromVersion, toVersion) ==
    IF path = <<>> THEN fromVersion = toVersion
    ELSE /\ path[1].fromVersion = fromVersion
         /\ path[Len(path)].toVersion = toVersion
         /\ \A i \in 1..(Len(path) - 1) : path[i + 1].fromVersion = path[i].toVersion

Step(fromVersion, toVersion) == [fromVersion |-> fromVersion, toVersion |-> toVersion]

\* C20: for every catalog and every two versions connected by a chain of its
\* migrations, the path search returns a chain of catalog migrations with the
\* least number of steps that starts at the first version, ends at the second
\* and in which each step starts where the previous one ends; with the edges
\* 0.1.0 -> 0.2.0 and 0.2.0 -> 0.3.0 the path from 0.1.0 to 0.3.0 is those two
\* steps in that order.
C20_ShortestPath ==
    migration.phase = "found" =>
        LET catalog == migration.availableMigrations
            from == migration.fromVersion
            to == migration.toVersion
            path == migration.path
        IN  /\ Connected(catalog, from, to) =>
                  /\ Len(path) = MinSteps(catalog, from, to)
                  /\ Connects(path, from, to)
                  /\ Range(path) \subseteq Range(catalog)
            /\ (/\ catalog = <<Step("0.1.0", "0.2.0"), Step("0.2.0", "0.3.0")>>
                /\ from = "0.1.0"
                /\ to = "0.3.0")
                  => path = <<Step("0.1.0", "0.2.0"), Step("0.2.0", "0.3.0")>>

\* the search answered the one direct migration although the catalog lists
\* a chain of two migrations before it
C20_Witness ==
    /\ migration.phase = "found"
    /\ migration.availableMigrations
          = <<Step("0.1.0", "0.2.0"), Step("0.2.0", "0.3.0"), Step("0.1.0", "0.3.0")>>
    /\ migration.fromVersion = "0.1.0"
    /\ migration.toVersion = "0.3.0"
    /\ migration.path = <<Step("0.1.0", "0.3.0")>>

\* the document is not of the current version and no chain of the catalog
\* leads from its version to the current one
NoPath(rawData, availableMigrations) ==
    /\ rawData # NoFile
    /\ DetectDataVersion(rawData) # CurrentAppVersion
    /\ ~Connected(availableMigrations, DetectDataVersion(rawData), CurrentAppVersion)

Halted ==
    /\ migration'.phase = "exited"
    /\ dataFile' = dataFile
    /\ backups' = backups
    /\ response' = response

\* C21: when the detected version differs from the current version and no
\* chain of catalog steps connects them (a version newer than the
\* application's, or an empty catalog), the start fails for good: the check
\* ends the process without a migration step, a write of the data file or a
\* backup, and from then on nothing changes and no ticket operation is
\* served.
C21_NoPathIsFatal ==
    [][/\ (migration.phase = "start" /\ NoPath(dataFile, migration.availableMigrations))
              => Halted
       /\ migration.phase = "exited" => Halted]_vars

\* the process has ended on a file of a version newer than the
\* application's, with the one migration in its catalog and no file written
C21_Witness ==
    /\ migration.phase = "exited"
    /\ migration.availableMigrations = <<Migration>>
    /\ DetectDataVersion(dataFile) = "0.3.0"
    /\ Len(Get(dataFile.tickets)) = 2
    /\ dataFile = before
    /\ backups = {}

\* C22: the migration check and every migration step it triggers are over
\* before the server takes its first ticket operation: an operation is
\* answered only after the start has ended well, with no step of the path
\* left and no step half done, and while the process is starting, migrating
\* or has ended, no ticket operation can read or write the data file.
C22_MigrationBeforeService ==
    /\ response # Idle =>
          /\ migration.phase = "serving"
          /\ migration.path = <<>>
          /\ ~migration.backedUp
    /\ migration.phase # "serving" =>
          /\ \A a \in StartedCreateInputs : ~ENABLED CreateTicketCall(a)
          /\ \A id \in IdInputs : ~ENABLED ReadTicketCall(id)
          /\ \A id \in IdInputs : ~ENABLED DeleteTicketCall(id)

\* the first operation on a file that the start has migrated is answered:
\* the backup is there and the file is of the current version
C22_Witness ==
    /\ Succeeded("read")
    /\ now = 0
    /\ backups = {[suffix |-> OldestVersion,
                    content |-> RawDoc(None, 1, <<Array(<<>>)>>, <<Absent>>)]}
    /\ dataFile.version = Some(CurrentAppVersion)
    /\ dataFile.tickets = Some(<<RawTicket(1, Absent, Array(<<>>))>>)

\* C23: whenever the service serves an operation, the version field of the
\* persisted document is the current schema version, whatever file the start
\* found: none, a current one, an older or an unversioned one.
C23_VersionIsCurrent ==
    response # Idle => dataFile.version = Some(CurrentAppVersion)

\* the first ticket of the document has an array under the field
FirstTicketHas(rawData, field) ==
    /\ IsSome(rawData.tickets)
    /\ Get(rawData.tickets) # <<>>
    /\ LET firstTicket == Get(rawData.tickets)[1] IN
       IF field = "dependencies" THEN firstTicket.dependencies.kind = "array"
       ELSE firstTicket.blockedBy.kind = "array"

Wrote ==
    /\ response.error = NoError
    /\ response.op \in {"create", "createBatch", "updateBatch", "delete"}

NamedIn(updates, id) == \E i \in 1..Len(updates) : updates[i].ticketId = id

\* C25: every service operation that changes a field of a persisted ticket
\* sets that ticket's updatedAt to the time of the operation: a created
\* ticket, every ticket named in an updateBatch, and every ticket whose
\* blockedBy a delete of another ticket changes; createdAt is set at creation
\* and never changes.
C25_UpdatedAtOnEveryMutation ==
    Wrote =>
        \A i \in 1..Len(dataFile.tickets) :
            LET new == dataFile.tickets[i] IN
            IF ~HasTicket(before, new.id)
            THEN new.createdAt = now - 1 /\ new.updatedAt = now - 1
            ELSE LET old == TicketOf(before, new.id) IN
                 /\ new.createdAt = old.createdAt
                 /\ new # old => new.updatedAt = now - 1
                 /\ (response.op = "updateBatch" /\ NamedIn(response.args, new.id))
                       => new.updatedAt = now - 1

UpdateFields == {"title", "description", "blockedBy", "status"}

\* the positions of the updates of ticket id that supply the field
Supplying(updates, id, field) ==
    {i \in 1..Len(updates) : updates[i].ticketId = id /\ IsSome(updates[i][field])}

\* the value supplied for the field of ticket old, the last one when the
\* batch supplies several; the stored value when it supplies none
Supplied(updates, old, field) ==
    LET S == Supplying(updates, old.id, field) IN
    IF S = {} THEN old[field]
    ELSE Get(updates[CHOOSE i \in S : \A j \in S : j <= i][field])

SameIgnoringCase(p, q) == p = q \/ {p, q} = {"Web", "web"}

InProjects(ticket, project) ==
    /\ IsSome(ticket.projects)
    /\ \E p \in Range(Get(ticket.projects)) : SameIgnoringCase(p, project)

\* the ticket has no projects field and its projectId is the project
HasProjectId(ticket, project) ==
    /\ ~IsSome(ticket.projects)
    /\ "projectId" \in DOMAIN ticket
    /\ SameIgnoringCase(ticket.projectId, project)

\* the other two filters of a list query q
PassesStatusAndDependsOn(ticket, q) ==
    /\ IsSome(q.status) => ticket.status = Get(q.status)
    /\ IsSome(q.dependsOn) => Get(q.dependsOn) \in Range(ticket.blockedBy)

Listed(storage, Passes(_)) ==
    {storage.tickets[i].id :
        i \in {j \in 1..Len(storage.tickets) : Passes(storage.tickets[j])}}

\* C27 as claimed: list(project, status, dependsOn) returns exactly the
\* tickets that satisfy all of the supplied filters together: project is a
\* member of the ticket's projects ignoring case, the status is the ticket's
\* status, and the ticket's blockedBy contains dependsOn; an omitted filter
\* excludes nothing.
C27_ListAsClaimed ==
    Answered("list") =>
        LET q == response.args
            Passes(t) == /\ IsSome(q.project) => InProjects(t, Get(q.project))
                         /\ PassesStatusAndDependsOn(t, q)
        IN  /\ Range(ResultIds(response.result)) = Listed(dataFile, Passes)
            /\ Len(response.result) = Cardinality(Listed(dataFile, Passes))

\* C27 as amended: the same, except that a ticket without a projects field
\* passes the project filter when its projectId is the project, ignoring
\* case.
C27_ListExact ==
    Answered("list") =>
        LET q == response.args
            Passes(t) == /\ IsSome(q.project) =>
                               \/ InProjects(t, Get(q.project))
                               \/ HasProjectId(t, Get(q.project))
                         /\ PassesStatusAndDependsOn(t, q)
        IN  /\ Range(ResultIds(response.result)) = Listed(dataFile, Passes)
            /\ Len(response.result) = Cardinality(Listed(dataFile, Passes))

\* a query with all three filters returned the one ticket that passes them
\* all, its project written in another case, and held back a ticket that
\* fails the status filter only
C27_Witness ==
    /\ Answered("list")
    /\ response.args = [project |-> Some("web"), status |-> Some("open"),
                        dependsOn |-> Some(TicketId(1))]
    /\ Len(dataFile.tickets) = 2
    /\ dataFile.tickets[1].projects = Some(<<"Web">>)
    /\ dataFile.tickets[1].blockedBy = <<TicketId(1)>>
    /\ dataFile.tickets[1].status = "closed"
    /\ dataFile.tickets[2].projects = Some(<<"Web">>)
    /\ dataFile.tickets[2].blockedBy = <<TicketId(1)>>
    /\ dataFile.tickets[2].status = "open"
    /\ ResultIds(response.result) = <<TicketId(2)>>

\* C28: within one server process the load, validate, mutate and save steps
\* of an operation never interleave with those of another operation of that
\* process: at most one operation of an instance is between its read and its
\* write, and unless another instance has written since, the document it
\* read is the document in the file, so its write is put on top of the last
\* write and loses none of its own process.
C28_NoInterleavingInOneProcess ==
    /\ \A c, d \in calls : c.instance = d.instance => c = d
    /\ \A c \in calls : ~c.stale => c.storage = dataFile

\* an instance has read the file for a delete right after its own create
\* was written, while the other instance has done nothing
C28_Witness ==
    /\ calls = {[instance |-> 1, request |-> DeleteRequest(TicketId(1)),
                 storage |-> dataFile, time |-> 1, stale |-> FALSE]}
    /\ Succeeded("create")
    /\ minted = <<TicketId(1)>>
    /\ HasTicket(dataFile, TicketId(1))

\* C29: when two server instances work on the same data file their reads
\* and writes interleave, and a write puts down what its operation made of
\* the document it had read, whatever was written since: after a successful
\* create the tickets are those it had read plus the new one, whose id comes
\* from the nextId it had read; after a successful delete they are those it
\* had read minus the deleted one.  So a mutation answered as successful by
\* the other instance in between is gone (the witness: two creates answered
\* with the same id, one ticket persisted).
C29_LastWriteWins ==
    /\ Succeeded("create") =>
          /\ ResultIds(response.result) = <<TicketId(before.nextId)>>
          /\ dataFile.tickets = before.tickets \o response.result
          /\ dataFile.nextId = before.nextId + 1
    /\ Succeeded("delete") =>
          /\ Keys(dataFile) = Keys(before) \ {response.args.ticketId}
          /\ dataFile.nextId = before.nextId

\* both instances were answered that their create succeeded, both with the
\* id TICKET-0001, and the file holds one ticket
C29_Witness ==
    /\ calls = {}
    /\ Succeeded("create")
    /\ minted = <<TicketId(1), TicketId(1)>>
    /\ Len(dataFile.tickets) = 1
    /\ dataFile.nextId = 2

\* the edges out of id when the candidate's edges are the list it is given
\* and every other ticket's edges are its stored blockedBy
EdgesWith(storage, candidateId, candidateBlockedBy, id) ==
    IF id = candidateId THEN Range(candidateBlockedBy) ELSE Blockers(storage, id)

RECURSIVE ClosureWith(_, _, _, _)
ClosureWith(storage, candidateId, candidateBlockedBy, S) ==
    LET T == S \cup UNION {EdgesWith(storage, candidateId, candidateBlockedBy, id) : id \in S}
    IN  IF T = S THEN S ELSE ClosureWith(storage, candidateId, candidateBlockedBy, T)

\* the ids reached from id by one or more edges of that graph
ReachedWith(storage, candidateId, candidateBlockedBy, id) ==
    ClosureWith(storage, candidateId, candidateBlockedBy,
                EdgesWith(storage, candidateId, candidateBlockedBy, id))

\* some cycle of that graph is reached from the candidate
CycleReachable(storage, candidateId, candidateBlockedBy) ==
    \E n \in {candidateId} \cup ReachedWith(storage, candidateId, candidateBlockedBy, candidateId) :
        n \in ReachedWith(storage, candidateId, candidateBlockedBy, n)

\* C30: the cycle check for (candidateId, candidateBlockedBy, document)
\* reports a cycle exactly when, in the graph where the candidate's edges are
\* candidateBlockedBy and every other ticket's edges are its stored
\* blockedBy, some cycle is reachable from the candidate; acyclic shapes that
\* reach a ticket by two routes or list an id twice are not reported, and an
\* id that is not in the document has no edges.
C30_CycleCheckExact ==
    Answered("check") =>
        (response.error = Err("circular", NoId)
            <=> CycleReachable(dataFile, response.args.ticketId, response.args.blockedBy))

\* no cycle was reported for a new ticket blocked by two tickets that both
\* name a third id, one of them twice, and that id is not in the document
C30_Witness ==
    /\ Answered("check")
    /\ response.error = NoError
    /\ response.args = [ticketId |-> TicketId(4), blockedBy |-> <<TicketId(1), TicketId(2)>>]
    /\ Len(dataFile.tickets) = 2
    /\ dataFile.tickets[1].blockedBy = <<TicketId(3), TicketId(3)>>
    /\ dataFile.tickets[2].blockedBy = <<TicketId(3)>>

\* C31: every updateBatch that succeeds on a document whose blockedBy graph
\* is acyclic leaves an acyclic graph, also when two or more updates of the
\* batch change blockedBy or two updates name the same ticket.
C31_UpdateBatchKeepsAcyclic ==
    (Succeeded("updateBatch") /\ Acyclic(before)) => Acyclic(dataFile)

RECURSIVE PathsOf(_, _)
\* the id sequences that lead from above the trees down to each of their nodes
PathsOf(nodes, prefix) ==
    UNION {{Append(prefix, nodes[i].id)}
           \cup PathsOf(nodes[i].unblocks, Append(prefix, nodes[i].id)) :
           i \in 1..Len(nodes)}

RECURSIVE Size(_)
\* the number of nodes of the trees
Size(nodes) ==
    IF nodes = <<>> THEN 0
    ELSE 1 + Size(Head(nodes).unblocks) + Size(Tail(nodes))

\* the chains of dependents below root: every ticket is an open dependent of
\* the one before it, and only the last may be a ticket met before
Chains(storage, root) ==
    {c \in UNION {[1..n -> Keys(storage)] : n \in 1..Len(storage.tickets)} :
        /\ c[1] \in OpenDependentIds(storage, root)
        /\ \A i \in 1..(Len(c) - 1) :
              /\ c[i + 1] \in OpenDependentIds(storage, c[i])
              /\ c[i] # root
              /\ \A j \in 1..(i - 1) : c[j] # c[i]}

\* C32: in a research tree a ticket reached from the root by two different
\* chains of dependents appears once under each chain, each occurrence with
\* its full subtree: the paths of the tree are exactly the chains of open
\* dependents below the root, each chain being the path of one node only.
C32_DiamondsExpanded ==
    Answered("next") =>
        \A i \in 1..Len(response.result) :
            LET root == response.result[i] IN
            /\ PathsOf(root.researchTree, <<>>) = Chains(dataFile, root.id)
            /\ Size(root.researchTree) = Cardinality(Chains(dataFile, root.id))

\* next() built the tree of ticket 1 where ticket 3 depends on it directly
\* and through ticket 2, and ticket 4 depends on ticket 3: ticket 3 is there
\* twice, both times with ticket 4 below it
C32_Witness ==
    /\ Answered("next")
    /\ Len(dataFile.tickets) = 4
    /\ \E i \in 1..Len(response.result) :
          LET root == response.result[i] IN
          /\ root.id = TicketId(1)
          /\ PathsOf(root.researchTree, <<>>) =
                {<<TicketId(2)>>, <<TicketId(2), TicketId(3)>>,
                 <<TicketId(2), TicketId(3), TicketId(4)>>,
                 <<TicketId(3)>>, <<TicketId(3), TicketId(4)>>}

\* C33: within a migration step the backup is written before the data file
\* is overwritten: in every state in which the data file holds the
\* transformed document, the backup suffixed with the source version exists
\* and its content is what the data file held before the step.
C33_BackupBeforeOverwrite ==
    dataFile # before =>
        /\ dataFile = NewData(before)
        /\ [suffix |-> Migration.fromVersion, content |-> before] \in backups

\* a file marked 0.1.0 whose only ticket has a dependencies value that is not
\* an array has been overwritten by the step
C33_Witness ==
    /\ dataFile # before
    /\ before.version = Some("0.1.0")
    /\ Len(Get(before.tickets)) = 1
    /\ Get(before.tickets)[1].dependencies = NotArray
    /\ Get(dataFile.tickets)[1].blockedBy = NotArray

\* the step at the head of the path has thrown: the backup is written, the
\* document cannot be transformed
StepThrows ==
    /\ migration.phase = "migrating"
    /\ migration.backedUp
    /\ TransformThrows(dataFile)

C35_NoDeadlock ==
    (/\ Answered("next")
     /\ response.args = None
     /\ \E i \in 1..Len(dataFile.tickets) : dataFile.tickets[i].status # "closed")
    => response.result # <<>>

\* every blockedBy id of the document is the id of one of its tickets
NoDangling(storage) ==
    \A i \in 1..Len(storage.tickets) :
        \A d \in Range(storage.tickets[i].blockedBy) : HasTicket(storage, d)

\* the counter is past the numeric suffix of every stored id
NextIdAhead(storage) ==
    \A i \in 1..Len(storage.tickets) : IdNumber(storage.tickets[i].id) < storage.nextId

Creating == Answered("create") \/ Answered("createBatch")

\* C36 as claimed: on any document in which every blockedBy id is an existing
\* key and nextId exceeds the suffix of every existing id, create and
\* createBatch never fail with the circular-dependency error.
C36_NeverCircular ==
    (Creating /\ NoDangling(before) /\ NextIdAhead(before))
        => response.error.kind # "circular"

\* C36 as amended: the same on the documents whose blockedBy graph has no
\* cycle.
C36_NeverCircularOnAcyclic ==
    (Creating /\ NoDangling(before) /\ NextIdAhead(before) /\ Acyclic(before))
        => response.error.kind # "circular"

\* a ticket was created blocked by two stored tickets, one of them blocked by
\* the other: the existence check passed and the cycle check walked the graph
C36_Witness ==
    /\ Succeeded("create")
    /\ Len(before.tickets) = 2
    /\ before.tickets[2].blockedBy = <<TicketId(1)>>
    /\ before.tickets[1].blockedBy = <<>>
    /\ response.args.blockedBy = <<TicketId(2), TicketId(1)>>
    /\ Len(dataFile.tickets) = 3

\* the ticket that create makes of item d: open, with the fields of d
MadeOf(ticket, d, projects) ==
    /\ ticket.title = d.title
    /\ ticket.description = d.description
    /\ ticket.projects = projects
    /\ ticket.blockedBy = d.blockedBy
    /\ ticket.status = "open"

\* C37: a createBatch of n items that succeeds on a document with nextId = k
\* returns n tickets in item order whose ids carry the numbers k, k+1, ...,
\* k+n-1, all open, persists all of them in one write and leaves nextId =
\* k+n; a create that succeeds mints k and leaves nextId = k+1.
C37_ConsecutiveIds ==
    LET k == before.nextId
        created == response.result
    IN  /\ Succeeded("createBatch") =>
              /\ Len(created) = Len(response.args)
              /\ \A i \in 1..Len(created) :
                    /\ IdNumber(created[i].id) = k + i - 1
                    /\ Len(created[i].id) = IdWidth
                    /\ MadeOf(created[i], response.args[i], response.args[i].projects)
              /\ dataFile.tickets = before.tickets \o created
              /\ dataFile.nextId = k + Len(response.args)
        /\ Succeeded("create") =>
              /\ Len(created) = 1
              /\ IdNumber(created[1].id) = k
              /\ Len(created[1].id) = IdWidth
              /\ MadeOf(created[1], response.args, Some(response.args.projects))
              /\ dataFile.tickets = Append(before.tickets, created[1])
              /\ dataFile.nextId = k + 1

\* a batch of two items, the second blocked by the stored ticket, succeeded
\* on a document of one ticket and left the counter two further on
C37_Witness ==
    /\ Succeeded("createBatch")
    /\ Len(before.tickets) = 1
    /\ before.nextId = 2
    /\ Len(response.args) = 2
    /\ response.args[1].blockedBy = <<>>
    /\ response.args[2].blockedBy = <<TicketId(1)>>
    /\ dataFile.nextId = 4

\* C38: read, list and next never write the data file: the persisted
\* document (its tickets, their field values, nextId) is after each of these
\* calls what it was before, whether the call succeeds or fails.
C38_QueriesWriteNothing ==
    (Answered("read") \/ Answered("list") \/ Answered("next"))
        => /\ dataFile.tickets = before.tickets
           /\ dataFile.nextId = before.nextId
           /\ dataFile.version = before.version

\* list answered with the newer ticket first while the document keeps the
\* older one first
C38_Witness ==
    /\ Succeeded("list")
    /\ Len(response.result) = 2
    /\ Len(dataFile.tickets) = 2
    /\ response.result[1].id = dataFile.tickets[2].id
    /\ response.result[2].id = dataFile.tickets[1].id

\* C39: when two server instances interleave their load and save steps on
\* the same data file, every persisted document still has no dangling
\* blockedBy reference and no blockedBy cycle.
C39_SharedFileKeepsGraphSound == NoDangling(dataFile) /\ Acyclic(dataFile)

====
